---- MODULE Spec2Model ----
(***************************************************************************)
(* xcapture (0xtools): the in-kernel sampling/tracking engine and the      *)
(* consumer's time conversion.                                             *)
(*                                                                         *)
(*   get_tasks        src/xcapture/src/probes/task/task.bpf.c              *)
(*   xcap_sys_enter/  src/xcapture/src/probes/syscall/syscall.bpf.c        *)
(*   xcap_sys_exit                                                         *)
(*   xcap_iorq_*      src/xcapture/src/probes/io/iorq_hashmap.bpf.c        *)
(*   get_wall_from_mono, handle_task_event   src/xcapture/src/user/        *)
(*                                                                         *)
(* The sampler (a sleepable task iterator) runs on one CPU while the       *)
(* sampled tasks run on others, so a visit of get_tasks is split at the    *)
(* points where it reads or writes state the probes share with it:         *)
(*   visit  (lines 100-190)  start time, task state, pid/tgid, passive nr   *)
(*   mark   (lines 192-332)  filter, sample times, sc_sampled              *)
(*   reserve(lines 334-371)  ring reservation, copy of the task state      *)
(*   iorq   (lines 546-564)  iorq snapshot and iorq_sampled                *)
(*   stacks (lines 566-751)  stack dedup, last_total_ctxsw, submit         *)
(* Each probe runs to completion without suspending and is one action.     *)
(***************************************************************************)
EXTENDS Integers, Sequences, FiniteSets, TLC

\* ---------------------------------------------------------------- bounds
MaxTicks == 2
MaxSeq == 1
MaxIorqSeq == 2
MaxTime == 3
MaxCtxsw == 1
EmittedCap == 1
\* the consumer's arithmetic is followed with scaled-down units: nanoseconds per
\* second and per microsecond, the modulus of a 64-bit word, the range of ktime
\* values, of the monotonic reference's seconds, and the wall clock's seconds
NsPerSec == 4
NsPerUs == 2
U64Mod == 64
\* the width of the 32-bit ring counters, scaled down
U32Mod == 16
UINT32_MAX == U32Mod - 1
MaxKtime == 8
MaxMonoSec == 1
WallSec == 2

\* ------------------------------------------------------- program constants
TASK_INTERRUPTIBLE == 1
TASK_UNINTERRUPTIBLE == 2
TASK_NOLOAD == 1024
TASK_STOPPED == 4
TASK_TRACED == 8
TASK_DEAD == 128
TASK_WAKEKILL == 256
TASK_WAKING == 512
TASK_NEW == 2048
xcap_daemon_ports == 10000
HASHED_FRAMES == 20

Tasks == {1, 2}
NoTask == 0
Rqs == {1, 2}
NoRq == 0
Syscalls == {0, 1}
NR_read == {0}
NR_aio_getevents == {208, 333}
NR_io_uring_enter == {426}
TaskStates == {0, 1}
Ports == {0, 1, 22, 40000}
Addrs == {1, 2}
Stacks == {<<a>> : a \in Addrs}

VARIABLES
    cfg,                          \* .rodata configuration and attached probes
    now,                          \* CLOCK_MONOTONIC (bpf_ktime_get_ns)
    regs,                         \* per task: orig_ax of the saved register frame
    storage,                      \* task_storage map, state part
    cache,                        \* task_storage map, cache part
    iorq_tracking,                \* iorq_tracking map: rq -> <<>> or <<iorq_info>>
    rq_live,                      \* kernel side of a request pointer
    emitted_stacks,               \* emitted_stacks map (set of hashes)
    on_cpu, ctxsw, kstack, ustack,\* scheduler side of each task
    it,                           \* the iterator's position and get_tasks' locals
    this_iter_loop_start_ktime,   \* static of get_tasks
    task_samples,                 \* records submitted to the task_samples ring
    completion_events,            \* records submitted to the completion_events ring
    stack_traces,                 \* records submitted to the stack_traces ring
    live,                         \* the tasks the iterator walks
    tick,                         \* number of iterator runs started
    hist,                         \* history of the records submitted so far
    wall,                         \* consumer: clock pair, sample and its timestamps
    sys,                          \* the system sampled: thread kinds, tgids, task states,
                                  \* and what the tasks' syscall arguments name
    drv,                          \* the driver: main()'s position, options, err, exit status
    csv                           \* the CSV output: g_ctx.files, the files on disk, the local hour

vars == <<cfg, now, regs, storage, cache, iorq_tracking, rq_live, emitted_stacks,
          on_cpu, ctxsw, kstack, ustack, it, this_iter_loop_start_ktime,
          task_samples, completion_events, stack_traces, live, tick, hist, wall, sys, drv, csv>>

kernel_vars == <<cfg, now, regs, storage, cache, iorq_tracking, rq_live, emitted_stacks,
          on_cpu, ctxsw, kstack, ustack, it, this_iter_loop_start_ktime,
          task_samples, completion_events, stack_traces, live, tick, hist, sys, drv, csv>>

\* ------------------------------------------------------------- data types
ZeroState ==
    [pid |-> 0, tgid |-> 0,
     sample_start_ktime |-> 0, sample_actual_ktime |-> 0,
     sc_sampled |-> FALSE, in_syscall_nr |-> 0, sc_enter_time |-> 0,
     sc_sequence_num |-> 0,
     iorq_sequence_num |-> 0, last_iorq_rq |-> NoRq, last_iorq_sampled |-> NoRq,
     last_iorq_sequence_num |-> 0,
     aio_inflight_reqs |-> 0, io_uring_sq_pending |-> 0, io_uring_cq_pending |-> 0,
     last_total_ctxsw |-> 0]

\* a socket as get_socket_info reads it: protocol, TCP state, and inet_sport, which
\* holds the local port in network byte order; <<>> is a descriptor that names no
\* inet or unix socket
Swab16(v) == (v % 256) * 256 + (v \div 256)
Sock(protocol, listen, port) ==
    <<[protocol |-> protocol, listen |-> listen, sport |-> Swab16(port)]>>
NoSock == <<>>
\* what a task's io_uring ring shows when its descriptor is looked up (found: the
\* ring file was reached through fd_array with ring_fd < 1024)
Ring(found, sq, cq) == [found |-> found, sq |-> sq, cq |-> cq]
\* one queue of struct io_rings: its free-running 32-bit head and tail counters and
\* its ring mask (ring size - 1)
Queue(head, tail, mask) == [head |-> head, tail |-> tail, mask |-> mask]
\* a queue of a ring of 4 entries with n of them waiting, counters not wrapped
Backlog(n) == Queue(0, n, 3)
\* io_helpers.h lines 222-226 and 241-245: the pending count of one queue, in __u32
ring_pending(q) ==
    IF q.tail >= q.head THEN q.tail - q.head
    ELSE (U32Mod + (q.mask + 1) - q.head + q.tail) % U32Mod
\* the header of a task's aio ring in user memory, and which reads of it succeed
\* ("ok", or the read that faults: "no_head", "no_tail")
AioRing(read, nr, head, tail) == [read |-> read, nr |-> nr, head |-> head, tail |-> tail]
\* an aio ring with n requests in flight, indices not wrapped
Inflight(n) == AioRing("ok", n + 1, 0, n)
\* io_helpers.h lines 731-755 (the header is read in one copy)
get_aio_inflight_count_task(ring) ==
    IF ring.read # "ok" THEN 0
    ELSE IF ring.tail >= ring.head THEN ring.tail - ring.head
    ELSE (U32Mod + (UINT32_MAX - ring.head) + ring.tail + 1) % U32Mod
\* syscall.bpf.c lines 91-107: head and tail are read one after the other; the
\* result is a __u32
get_num_inflight_aios_ring(ring) ==
    IF ring.read = "no_head" THEN (U32Mod - 1) % U32Mod
    ELSE IF ring.read = "no_tail" THEN (U32Mod - 2) % U32Mod
    ELSE IF ring.tail >= ring.head THEN ring.tail - ring.head
    ELSE (U32Mod + (UINT32_MAX - ring.head) + ring.tail + 1) % U32Mod

\* the bytes bpf_ringbuf_reserve hands out for an iorq_completion_event: the ring is
\* not zero-filled on reuse, so each word is what the last record at these bytes left
\* there (w), or zero if the ring has not wrapped yet
RingPage(w) ==
    [type |-> w, rq |-> w, insert_pid |-> w, insert_tgid |-> w, issue_pid |-> w,
     issue_tgid |-> w, complete_pid |-> w, complete_tgid |-> w, iorq_sequence_num |-> w]

\* the bytes bpf_ringbuf_reserve hands out for a task_output_event, likewise (the
\* fields of struct task_output_event the model carries; g_*: not part of the record)
SamplePage(w) ==
    [pid |-> w, tgid |-> w, on_cpu |-> w, syscall_nr |-> w, storage |-> w,
     kstack_hash |-> w, ustack_hash |-> w, emit_reason |-> w, cmdline_len |-> w,
     ur_sq_filename |-> w, in_thrashing |-> w]

\* the system as the specifications that do not vary it see it: no kernel threads,
\* one process, running or sleeping tasks, any socket behind a descriptor
SysDefault ==
    [kthreads |-> {},
     tgid |-> [t \in Tasks |-> 10],
     task_states |-> [t \in Tasks |-> TaskStates],
     socks |-> [t \in Tasks |-> {NoSock} \cup {Sock("tcp", TRUE, 80)}
                                \cup {Sock("tcp", FALSE, p) : p \in Ports \ {0, 1}}],
     rings |-> [t \in Tasks |-> {Ring(FALSE, Backlog(0), Backlog(0))}],
     aio |-> [t \in Tasks |-> {Inflight(0)}],
     ring_pages |-> {RingPage(0)},
     sample_pages |-> {SamplePage(0)}]

TgidOf(t) == sys.tgid[t]

\* (g_prev: empty until the task's first sample, then whether that sample found the
\* task on CPU)
ZeroCache == [cached_kstack |-> <<>>, cached_ustack |-> <<>>, g_prev |-> <<>>]

ItIdle == [pc |-> "idle", task |-> NoTask, seq_num |-> 0, task_state |-> 0,
           passive |-> -1,
           can_use_cached_stack |-> FALSE, total_ctxsw |-> 0, event |-> <<>>,
           g_stamped |-> FALSE]

Min(S) == CHOOSE x \in S : \A y \in S : x <= y
\* main.c 873-896: with -p TGID and a libbpf that has bpf_iter_link_info.task, the
\* iterator is attached with linfo.task.pid and walks that thread group only
Walked ==
    IF cfg.filter_tgid > 0 /\ cfg.HAVE_BPF_ITER_TASK_LINK_INFO
    THEN {u \in live : TgidOf(u) = cfg.filter_tgid}
    ELSE live
\* the task iterator walks its tasks in pid order
NextTask(t) == IF \E u \in Walked : u > t THEN Min({u \in Walked : u > t}) ELSE NoTask

\* history: the number of records submitted so far under one key
Count(bag, key) == Cardinality({e \in bag : e[1] = key})
BagAdd(bag, key) == bag \cup {<<key, Count(bag, key) + 1>>}

\* the iterator moves on to the next task (get_tasks returned 0)
ItNext == [ItIdle EXCEPT !.pc = "visit", !.task = NextTask(it.task),
                         !.seq_num = it.seq_num + 1]

\* ---------------------------------------------------------------- helpers
RECURSIVE Xor(_, _)
Xor(a, b) ==
    IF a = 0 THEN b
    ELSE IF b = 0 THEN a
    ELSE 2 * Xor(a \div 2, b \div 2) + ((a + b) % 2)

\* FNV-1a over the first HASHED_FRAMES addresses, kept to its low 8 bits
\* (xor and the multiplication modulo 2^64 commute with taking the low byte,
\* so FNV_BASIS and FNV_PRIME are the low bytes of the 64-bit constants)
FNV_BASIS == 37
FNV_PRIME == 179
HashMod == 256

RECURSIVE FnvFold(_, _, _)
FnvFold(hash, stack, i) ==
    IF i > Len(stack) \/ i > HASHED_FRAMES THEN hash
    ELSE FnvFold((Xor(hash, stack[i] % HashMod) * FNV_PRIME) % HashMod, stack, i + 1)

get_stack_hash(stack) == IF Len(stack) <= 0 THEN 0 ELSE FnvFold(FNV_BASIS, stack, 1)

ReadSyscalls == {0, 19, 17, 295, 327, 45, 47, 299, 7, 23, 270, 271, 232, 281, 441, 42, 43, 288}
is_read_syscall(nr) == nr \in ReadSyscalls

\* the filter with the daemon-port heuristic ahead of the sleeping test
should_emit_task_port_first(task_state, syscall_nr, aio_inflight_reqs, io_uring_sq_pending, io_uring_cq_pending, read_local_port_num) ==
    IF cfg.xcap_show_all THEN TRUE
    ELSE IF read_local_port_num > 0 /\ is_read_syscall(syscall_nr) THEN
        read_local_port_num # 1 /\ read_local_port_num > cfg.xcap_daemon_ports
    ELSE task_state % 2 # TASK_INTERRUPTIBLE

should_emit_task(task_state, syscall_nr, aio_inflight_reqs, io_uring_sq_pending, io_uring_cq_pending, read_local_port_num) ==
    IF cfg.xcap_show_all THEN TRUE
    ELSE IF syscall_nr \in NR_aio_getevents /\ aio_inflight_reqs # 0 THEN TRUE
    ELSE IF syscall_nr \in NR_io_uring_enter
            /\ (io_uring_sq_pending > 0 \/ io_uring_cq_pending > 0) THEN TRUE
    ELSE IF task_state % 2 = TASK_INTERRUPTIBLE THEN
        IF read_local_port_num > 0 /\ is_read_syscall(syscall_nr) THEN
            IF read_local_port_num = 1 THEN FALSE
            ELSE IF read_local_port_num <= cfg.xcap_daemon_ports THEN FALSE
            ELSE TRUE
        ELSE FALSE
    ELSE TRUE

\* orig_ax as get_tasks reads it: -1 kept, anything else masked to 9 bits
PassiveSyscallNr(orig_ax) == IF orig_ax = -1 THEN -1 ELSE orig_ax % 512

\* x86-64 numbers of the syscalls the sampler treats specially
NR_ppoll == {271}
NR_pselect6 == {270}
NR_aio_any == NR_aio_getevents \cup {207, 209, 210}
\* SYSCALL_HAS_FD_ARG1: the bitmap's entries below 64, and io_uring_enter
FdArg1Syscalls == {0, 1, 3, 5, 8, 16, 17, 18, 19, 20, 33, 40, 42, 43, 44, 45, 46, 47, 48, 49, 50, 51, 52, 54, 55} \cup NR_io_uring_enter
SYSCALL_HAS_FD_ARG1(syscall_nr) == syscall_nr \in FdArg1Syscalls

\* check_fd_port, and lines 271-291: 0 for no TCP/UDP socket, 1 for a TCP socket in
\* LISTEN, else the local port converted to host byte order
check_fd_port(sock) ==
    IF sock = NoSock THEN 0
    ELSE IF sock[1].protocol \in {"tcp", "udp"} THEN
        IF sock[1].protocol = "tcp" /\ sock[1].listen THEN 1
        ELSE Swab16(sock[1].sport)
    ELSE 0

\* lines 192-292: read_local_port_num for the descriptor the syscall observes
EarlyPort(passive, sock) ==
    IF passive \in NR_ppoll \cup NR_pselect6 THEN check_fd_port(sock)
    ELSE IF passive \in NR_aio_any THEN 0
    ELSE IF passive \in NR_io_uring_enter THEN check_fd_port(sock)
    ELSE IF passive >= 0 /\ SYSCALL_HAS_FD_ARG1(passive) THEN check_fd_port(sock)
    ELSE 0

\* lines 203-249: the AIO inflight count is stored for the AIO syscalls; the io_uring
\* backlog is stored when the ring file was found
EarlyCounts(st, passive, ring, aio) ==
    IF passive \in NR_aio_any THEN [st EXCEPT !.aio_inflight_reqs = get_aio_inflight_count_task(aio)]
    ELSE IF passive \in NR_io_uring_enter /\ ring.found
    THEN [st EXCEPT !.io_uring_sq_pending = ring_pending(ring.sq),
                    !.io_uring_cq_pending = ring_pending(ring.cq)]
    ELSE st

\* ------------------------------------------------------- syscall probes
\* tp_btf/sys_enter without line 125
xcap_sys_enter_no_increment(t, syscall_nr) ==
    \E ring \in sys.aio[t] :
        storage' = [storage EXCEPT ![t].sc_enter_time = now,
                                   ![t].in_syscall_nr = syscall_nr,
                                   ![t].aio_inflight_reqs =
                                       IF syscall_nr \in NR_aio_getevents
                                       THEN get_num_inflight_aios_ring(ring) ELSE @]

\* tp_btf/sys_enter
xcap_sys_enter(t, syscall_nr) ==
    \E ring \in sys.aio[t] :
        storage' = [storage EXCEPT ![t].sc_enter_time = now,
                                   ![t].in_syscall_nr = syscall_nr,
                                   ![t].sc_sequence_num = @ + 1,
                                   ![t].aio_inflight_reqs =
                                       IF syscall_nr \in NR_aio_getevents
                                       THEN get_num_inflight_aios_ring(ring) ELSE @]

\* tp_btf/sys_exit without the test of sc_sampled (line 213)
xcap_sys_exit_unsampled(t, ok) ==
    /\ completion_events' =
           IF ok THEN Append(completion_events,
               [type |-> "syscall",
                pid |-> storage[t].pid, tgid |-> storage[t].tgid,
                completed_syscall_nr |-> storage[t].in_syscall_nr,
                completed_sc_sequence_num |-> storage[t].sc_sequence_num,
                completed_sc_enter_time |-> storage[t].sc_enter_time,
                completed_sc_exit_time |-> now])
           ELSE completion_events
    /\ hist' = IF ok
               THEN [hist EXCEPT !.sc_compl =
                        BagAdd(@, <<storage[t].pid, storage[t].sc_sequence_num>>)]
               ELSE [hist EXCEPT !.sc_dropped =
                        @ \cup {<<storage[t].pid, storage[t].sc_sequence_num>>}]
    /\ storage' = [storage EXCEPT ![t].sc_sampled = FALSE,
                                  ![t].in_syscall_nr = -1]

\* tp_btf/sys_exit; ok: the completion_events reservation succeeded
xcap_sys_exit(t, ok) ==
    IF ~storage[t].sc_sampled THEN
        UNCHANGED <<storage, completion_events, hist>>
    ELSE
        /\ completion_events' =
               IF ok THEN Append(completion_events,
                   [type |-> "syscall",
                    pid |-> storage[t].pid, tgid |-> storage[t].tgid,
                    completed_syscall_nr |-> storage[t].in_syscall_nr,
                    completed_sc_sequence_num |-> storage[t].sc_sequence_num,
                    completed_sc_enter_time |-> storage[t].sc_enter_time,
                    completed_sc_exit_time |-> now])
               ELSE completion_events
        /\ hist' = IF ok
                   THEN [hist EXCEPT !.sc_compl =
                            BagAdd(@, <<storage[t].pid, storage[t].sc_sequence_num>>)]
                   ELSE [hist EXCEPT !.sc_dropped =
                            @ \cup {<<storage[t].pid, storage[t].sc_sequence_num>>}]
        /\ storage' = [storage EXCEPT ![t].sc_sampled = FALSE,
                                      ![t].in_syscall_nr = -1]

\* the task enters a syscall: the register frame is saved, the tracepoint fires
SysEnter(t, nr) ==
    /\ regs[t] = -1
    /\ storage[t].sc_sequence_num < MaxSeq
    /\ regs' = [regs EXCEPT ![t] = nr]
    /\ IF cfg.track_syscalls THEN xcap_sys_enter(t, nr) ELSE UNCHANGED storage
    /\ UNCHANGED <<cfg, now, cache, iorq_tracking, rq_live, emitted_stacks, on_cpu,
                   ctxsw, kstack, ustack, it, this_iter_loop_start_ktime, task_samples,
                   completion_events, stack_traces, live, tick, hist, wall, sys, drv, csv>>

\* the task leaves its syscall: the tracepoint fires, the task returns to user mode
SysExit(t) ==
    /\ regs[t] # -1
    /\ regs' = [regs EXCEPT ![t] = -1]
    /\ IF cfg.track_syscalls THEN \E ok \in BOOLEAN : xcap_sys_exit(t, ok)
       ELSE UNCHANGED <<storage, completion_events, hist>>
    /\ UNCHANGED <<cfg, now, cache, iorq_tracking, rq_live, emitted_stacks, on_cpu,
                   ctxsw, kstack, ustack, it, this_iter_loop_start_ktime, task_samples,
                   stack_traces, live, tick, wall, sys, drv, csv>>

\* ------------------------------------------------------- block-I/O probes
NewIorq(t, seq, issued) ==
    [iorq_sampled |-> FALSE, iorq_sequence_num |-> seq,
     insert_pid |-> t, insert_tgid |-> TgidOf(t),
     issue_pid |-> IF issued THEN t ELSE 0,
     issue_tgid |-> IF issued THEN TgidOf(t) ELSE 0,
     g_mark |-> <<>>, g_mark_reused |-> FALSE, g_stale |-> FALSE, g_reused |-> FALSE]

\* xcap_iorq_insert with the sequence number read but not incremented
xcap_iorq_insert_no_increment(t, rq) ==
    /\ storage' = [storage EXCEPT ![t].last_iorq_rq = rq]
    /\ iorq_tracking' = [iorq_tracking EXCEPT
           ![rq] = <<NewIorq(t, storage[t].iorq_sequence_num, FALSE)>>]
    /\ hist' = [hist EXCEPT !.iorq_created =
                    BagAdd(@, <<t, storage[t].iorq_sequence_num>>)]

\* tp_btf/block_rq_insert, current task t
xcap_iorq_insert(t, rq) ==
    /\ storage' = [storage EXCEPT ![t].last_iorq_rq = rq,
                                  ![t].iorq_sequence_num = @ + 1]
    /\ iorq_tracking' = [iorq_tracking EXCEPT
           ![rq] = <<NewIorq(t, storage[t].iorq_sequence_num + 1, FALSE)>>]
    /\ hist' = [hist EXCEPT !.iorq_created =
                    BagAdd(@, <<t, storage[t].iorq_sequence_num + 1>>)]

\* xcap_iorq_issue that treats every request as one it has not seen
xcap_iorq_issue_as_new(t, rq) ==
    /\ storage' = [storage EXCEPT ![t].last_iorq_rq = rq,
                                  ![t].iorq_sequence_num = @ + 1]
    /\ iorq_tracking' = [iorq_tracking EXCEPT
           ![rq] = <<NewIorq(t, storage[t].iorq_sequence_num + 1, TRUE)>>]
    /\ hist' = [hist EXCEPT !.iorq_created =
                    BagAdd(@, <<t, storage[t].iorq_sequence_num + 1>>)]

\* tp_btf/block_rq_issue, current task t
xcap_iorq_issue(t, rq) ==
    IF iorq_tracking[rq] # <<>> THEN
        /\ iorq_tracking' = [iorq_tracking EXCEPT
               ![rq] = <<[@[1] EXCEPT !.issue_pid = t, !.issue_tgid = TgidOf(t),
                                      !.g_reused = @ \/ iorq_tracking[rq][1].g_stale]>>]
        /\ UNCHANGED <<storage, hist>>
    ELSE
        /\ storage' = [storage EXCEPT ![t].last_iorq_rq = rq,
                                      ![t].iorq_sequence_num = @ + 1]
        /\ iorq_tracking' = [iorq_tracking EXCEPT
               ![rq] = <<NewIorq(t, storage[t].iorq_sequence_num + 1, TRUE)>>]
        /\ hist' = [hist EXCEPT !.iorq_created =
                        BagAdd(@, <<t, storage[t].iorq_sequence_num + 1>>)]

\* lines 76-93: the fields xcap_iorq_complete assigns in the reserved bytes; the
\* others keep what the bytes held (g_*: the entry's history, not part of the record)
IorqFill(page, rq, info) ==
    [page EXCEPT !.type = "iorq", !.rq = rq,
                 !.insert_pid = info.insert_pid, !.insert_tgid = info.insert_tgid,
                 !.issue_pid = info.issue_pid, !.issue_tgid = info.issue_tgid,
                 !.iorq_sequence_num = info.iorq_sequence_num]
        @@ [g_mark |-> info.g_mark, g_mark_reused |-> info.g_mark_reused,
            g_reused |-> info.g_reused]

\* xcap_iorq_complete that returns, where the code goes to cleanup, when the entry
\* is not sampled or the reservation fails
xcap_iorq_complete_early_return(rq, partial, ok) ==
    IF partial \/ iorq_tracking[rq] = <<>> \/ ~iorq_tracking[rq][1].iorq_sampled \/ ~ok THEN
        UNCHANGED <<iorq_tracking, completion_events>>
    ELSE
        /\ \E page \in sys.ring_pages :
               completion_events' =
                   Append(completion_events, IorqFill(page, rq, iorq_tracking[rq][1]))
        /\ iorq_tracking' = [iorq_tracking EXCEPT ![rq] = <<>>]

\* tp_btf/block_rq_complete; partial: nr_bytes < rq->__data_len;
\* ok: the completion_events reservation succeeded
xcap_iorq_complete(rq, partial, ok) ==
    IF partial \/ iorq_tracking[rq] = <<>> THEN
        UNCHANGED <<iorq_tracking, completion_events>>
    ELSE
        /\ IF iorq_tracking[rq][1].iorq_sampled /\ ok THEN
               \E page \in sys.ring_pages :
                  completion_events' =
                      Append(completion_events, IorqFill(page, rq, iorq_tracking[rq][1]))
           ELSE completion_events' = completion_events
        /\ iorq_tracking' = [iorq_tracking EXCEPT ![rq] = <<>>]

\* the block layer queues a request at a free request pointer
IorqInsert(t, rq) ==
    /\ rq_live[rq] = "free"
    /\ storage[t].iorq_sequence_num < MaxIorqSeq
    /\ rq_live' = [rq_live EXCEPT ![rq] = "queued"]
    /\ xcap_iorq_insert(t, rq)
    /\ UNCHANGED <<cfg, now, regs, cache, emitted_stacks, on_cpu, ctxsw, kstack, ustack,
                   it, this_iter_loop_start_ktime, task_samples, completion_events,
                   stack_traces, live, tick, wall, sys, drv, csv>>

\* the block layer hands a queued request, or a new one directly, to the driver
IorqIssue(t, rq) ==
    /\ rq_live[rq] \in {"free", "queued"}
    /\ iorq_tracking[rq] # <<>> \/ storage[t].iorq_sequence_num < MaxIorqSeq
    /\ rq_live' = [rq_live EXCEPT ![rq] = "issued"]
    /\ xcap_iorq_issue(t, rq)
    /\ UNCHANGED <<cfg, now, regs, cache, emitted_stacks, on_cpu, ctxsw, kstack, ustack,
                   it, this_iter_loop_start_ktime, task_samples, completion_events,
                   stack_traces, live, tick, wall, sys, drv, csv>>

\* a kernel worker runs the queue: it hands a request that was queued to the driver
IorqDispatch(t, rq) ==
    /\ iorq_tracking[rq] # <<>>
    /\ IorqIssue(t, rq)

\* the driver completes part or all of an issued request
IorqComplete(rq) ==
    /\ rq_live[rq] = "issued"
    /\ \E partial \in BOOLEAN, ok \in BOOLEAN :
          /\ xcap_iorq_complete(rq, partial, ok)
          /\ rq_live' = [rq_live EXCEPT ![rq] = IF partial THEN "issued" ELSE "free"]
    /\ UNCHANGED <<cfg, now, regs, storage, cache, emitted_stacks, on_cpu, ctxsw, kstack,
                   ustack, it, this_iter_loop_start_ktime, task_samples, stack_traces,
                   live, tick, hist, wall, sys, drv, csv>>

\* the block layer merges a queued request into another one and frees it: no
\* tracepoint of this program fires, the entry stays behind for the next user of
\* the pointer
RqMerge(rq) ==
    /\ rq_live[rq] = "queued"
    /\ rq_live' = [rq_live EXCEPT ![rq] = "free"]
    /\ iorq_tracking' = [iorq_tracking EXCEPT
           ![rq] = IF @ = <<>> THEN @ ELSE <<[@[1] EXCEPT !.g_stale = TRUE]>>]
    /\ UNCHANGED <<cfg, now, regs, storage, cache, emitted_stacks, on_cpu, ctxsw, kstack,
                   ustack, it, this_iter_loop_start_ktime, task_samples,
                   completion_events, stack_traces, live, tick, hist, wall, sys, drv, csv>>

\* ------------------------------------------------------------ the sampler
\* the tasks with PF_KTHREAD set
KThreads == sys.kthreads
HasBit(v, bit) == (v \div bit) % 2 = 1
\* task_state & TASK_IDLE, TASK_IDLE being TASK_UNINTERRUPTIBLE | TASK_NOLOAD
IsIdle(task_state) == HasBit(task_state, 2) \/ HasBit(task_state, 1024)

\* lines 110-122: idle kernel threads and xcapture itself are skipped
FastPathDrop(t, task_state) ==
    \/ t \in KThreads /\ IsIdle(task_state)
    \/ cfg.xcap_xcapture_pid > 0 /\ TgidOf(t) = cfg.xcap_xcapture_pid

\* the loop start stamped at every element
LoopStartEveryElement(seq_num) == now

\* lines 100-102: the loop start is stamped when the iterator is at its first element
LoopStart(seq_num) ==
    IF seq_num = 0 THEN now ELSE this_iter_loop_start_ktime

\* the cache with no stack ever reused
CanUseCachedStack_never(t) == FALSE

\* the cache reused whenever the context-switch count is unchanged, on CPU or off
CanUseCachedStack_on_cpu_too(t) ==
    /\ cfg.xcap_dump_kernel_stack_traces \/ cfg.xcap_dump_user_stack_traces
    /\ ctxsw[t] = storage[t].last_total_ctxsw

\* lines 139-155: the cached stacks are fresh when the task is off CPU and its
\* context-switch count is the one stored with the last sample
CanUseCachedStack(t) ==
    /\ cfg.xcap_dump_kernel_stack_traces \/ cfg.xcap_dump_user_stack_traces
    /\ ~on_cpu[t]
    /\ ctxsw[t] = storage[t].last_total_ctxsw

\* lines 100-190: first element stamps the loop start; storage is fetched, pid and
\* tgid filled in once; context switches and the passive syscall number are read
GtVisit ==
    /\ it.pc = "visit"
    /\ it.task # NoTask
    /\ this_iter_loop_start_ktime' = LoopStart(it.seq_num)
    /\ \E task_state \in sys.task_states[it.task] :
       IF FastPathDrop(it.task, task_state) THEN
           /\ it' = ItNext
           /\ UNCHANGED storage
       ELSE
           /\ storage' = [storage EXCEPT
                  ![it.task].pid = IF @ = 0 THEN it.task ELSE @,
                  ![it.task].tgid = IF @ = 0 THEN TgidOf(it.task) ELSE @]
           /\ it' = [it EXCEPT
                  !.pc = "mark",
                  !.task_state = task_state,
                  !.passive = IF it.task \in KThreads THEN -1
                              ELSE PassiveSyscallNr(regs[it.task]),
                  !.total_ctxsw =
                      IF cfg.xcap_dump_kernel_stack_traces \/ cfg.xcap_dump_user_stack_traces
                      THEN ctxsw[it.task] ELSE 0,
                  !.can_use_cached_stack = CanUseCachedStack(it.task)]
    /\ UNCHANGED <<cfg, now, regs, cache, iorq_tracking, rq_live, emitted_stacks, on_cpu,
                   ctxsw, kstack, ustack, task_samples, completion_events, stack_traces,
                   live, tick, hist, wall, sys, drv, csv>>

\* lines 300-332: the sample times and the retroactive sampled mark
MarkState(st, passive) ==
    LET s1 == [st EXCEPT !.sample_start_ktime = this_iter_loop_start_ktime,
                         !.sample_actual_ktime = now]
        s2 == [s1 EXCEPT !.sc_sampled = TRUE]
    IN  IF passive >= 0 THEN
            IF s2.sc_enter_time = 0
            THEN [s2 EXCEPT !.in_syscall_nr = passive,
                            !.sc_enter_time = s2.sample_actual_ktime]
            ELSE s2
        ELSE s1

\* lines 192-332: the interest filter, then MarkState; task_state is not read again
\* (g_stamped records that this visit found sc_enter_time 0 and stamped it)
GtMark ==
    /\ it.pc = "mark"
    /\ \E sock \in sys.socks[it.task], ring \in sys.rings[it.task],
          aio \in sys.aio[it.task] :
          LET st == EarlyCounts(storage[it.task], it.passive, ring, aio)
          IN  IF ~should_emit_task(it.task_state, it.passive, st.aio_inflight_reqs,
                                   st.io_uring_sq_pending, st.io_uring_cq_pending,
                                   EarlyPort(it.passive, sock)) THEN
                  /\ it' = ItNext
                  /\ storage' = [storage EXCEPT ![it.task] = st]
              ELSE
                  /\ storage' = [storage EXCEPT ![it.task] = MarkState(st, it.passive)]
                  /\ it' = [it EXCEPT !.pc = "reserve", !.task_state = 0,
                                      !.g_stamped = it.passive >= 0 /\ st.sc_enter_time = 0]
    /\ UNCHANGED <<cfg, now, regs, cache, iorq_tracking, rq_live, emitted_stacks, on_cpu,
                   ctxsw, kstack, ustack, this_iter_loop_start_ktime, task_samples,
                   completion_events, stack_traces, live, tick, hist, wall, sys, drv, csv>>

\* lines 342-421: the fields get_tasks assigns in the reserved bytes before the
\* enrichment; the others keep what the bytes held
TaskFill(page) ==
    [page EXCEPT !.pid = it.task, !.tgid = TgidOf(it.task),
                 !.on_cpu = on_cpu[it.task],
                 !.syscall_nr = it.passive,
                 !.storage = storage[it.task],
                 !.kstack_hash = 0, !.ustack_hash = 0]
        @@ [g_tick |-> tick, g_stamped |-> it.g_stamped]

\* lines 334-371: reserve the TaskSample (or return), fill it, copy the task state
GtReserve ==
    /\ it.pc = "reserve"
    /\ \E ok \in BOOLEAN :
          IF ~ok THEN it' = ItNext
          ELSE \E page \in sys.sample_pages :
                  it' = [it EXCEPT !.pc = "iorq", !.event = <<TaskFill(page)>>]
    /\ UNCHANGED <<cfg, now, regs, storage, cache, iorq_tracking, rq_live, emitted_stacks,
                   on_cpu, ctxsw, kstack, ustack, this_iter_loop_start_ktime, task_samples,
                   completion_events, stack_traces, live, tick, hist, wall, sys, drv, csv>>

\* lines 559-563: the entry found at the sampled request pointer is marked only if
\* its inserter and sequence number are the sampled task's
IorqMarked(t, rq) ==
    IF /\ iorq_tracking[rq] # <<>>
       /\ iorq_tracking[rq][1].insert_pid = t
       /\ iorq_tracking[rq][1].iorq_sequence_num = storage[t].iorq_sequence_num
    THEN [iorq_tracking EXCEPT
             ![rq] = <<[@[1] EXCEPT !.iorq_sampled = TRUE,
                                    !.g_mark = <<t, storage[t].iorq_sequence_num>>,
                                    !.g_mark_reused = iorq_tracking[rq][1].g_reused]>>]
    ELSE iorq_tracking

\* lines 546-564
GtIorq ==
    /\ it.pc = "iorq"
    /\ IF storage[it.task].last_iorq_rq # NoRq THEN
           /\ storage' = [storage EXCEPT
                  ![it.task].last_iorq_sampled = storage[it.task].last_iorq_rq,
                  ![it.task].last_iorq_sequence_num = storage[it.task].iorq_sequence_num]
           /\ iorq_tracking' = IorqMarked(it.task, storage[it.task].last_iorq_rq)
       ELSE UNCHANGED <<storage, iorq_tracking>>
    /\ it' = [it EXCEPT !.pc = "stacks"]
    /\ UNCHANGED <<cfg, now, regs, cache, rq_live, emitted_stacks, on_cpu, ctxsw, kstack,
                   ustack, this_iter_loop_start_ktime, task_samples, completion_events,
                   stack_traces, live, tick, hist, wall, sys, drv, csv>>

\* bpf_map_update_elem(&emitted_stacks, ..., BPF_ANY): a full hash map refuses a new key
MapInsert(em, h) ==
    IF h \in em \/ Cardinality(em) < EmittedCap THEN em \cup {h} ELSE em

\* lines 583-619 and 704-740 with the hash marked whether or not the reservation
\* succeeded
StackEmit_marks_unreserved(t, cached, em, tr, rok, is_kernel) ==
    LET h == get_stack_hash(cached)
        emit == Len(cached) > 0 /\ h \notin em /\ rok
    IN  [hash |-> IF Len(cached) > 0 THEN h ELSE 0,
         traces |-> IF emit
                    THEN Append(tr, [stack_hash |-> h, is_kernel |-> is_kernel,
                                     pid |-> t, stack |-> cached])
                    ELSE tr,
         emitted |-> IF Len(cached) > 0 /\ h \notin em THEN MapInsert(em, h) ELSE em,
         new |-> IF emit THEN <<h>> ELSE <<>>]

\* lines 583-619 and 704-740: hash the cached stack and emit it if its hash is new;
\* rok: the stack_traces reservation succeeded
StackEmit(t, cached, em, tr, rok, is_kernel) ==
    LET h == get_stack_hash(cached)
        emit == Len(cached) > 0 /\ h \notin em /\ rok
    IN  [hash |-> IF Len(cached) > 0 THEN h ELSE 0,
         traces |-> IF emit
                    THEN Append(tr, [stack_hash |-> h, is_kernel |-> is_kernel,
                                     pid |-> t, stack |-> cached])
                    ELSE tr,
         emitted |-> IF emit THEN MapInsert(em, h) ELSE em,
         new |-> IF emit THEN <<h>> ELSE <<>>]

\* what bpf_get_task_stack can return: the task's kernel stack, or nothing
KReads(t) == {kstack[t], <<>>}
\* what the frame-pointer walk can collect: a prefix of the task's user stack
UReads(t) == {SubSeq(ustack[t], 1, n) : n \in 0..Len(ustack[t])}

\* history of the submitted TaskSamples: the syscall instance and the request
\* sequence number each one reports, the loop start time of each tick, and
\* (sc_during) the instances that were in progress, and reported by number, when a
\* sample of their task was submitted
Sampled(h, ev) ==
    [h EXCEPT
       !.sc_samples = IF ev.syscall_nr >= 0
                      THEN @ \cup {<<ev.pid, ev.storage.sc_sequence_num>>} ELSE @,
       !.sc_during = IF /\ ev.syscall_nr >= 0
                        /\ regs[ev.pid] # -1
                        /\ ev.storage.sc_sequence_num = storage[ev.pid].sc_sequence_num
                     THEN @ \cup {<<ev.pid, ev.storage.sc_sequence_num>>} ELSE @,
       !.iorq_samples = @ \cup {<<ev.pid, ev.storage.iorq_sequence_num>>},
       !.starts = @ \cup {<<ev.g_tick, ev.storage.sample_start_ktime>>}]

\* history of the submitted StackTraces, counted per hash
RECURSIVE StacksSent(_, _)
StacksSent(h, new) ==
    IF new = <<>> THEN h
    ELSE StacksSent([h EXCEPT !.stacks = BagAdd(@, Head(new))], Tail(new))

\* lines 566-751
GtStacks ==
    /\ it.pc = "stacks"
    /\ \E kread \in KReads(it.task), uread \in UReads(it.task),
          krok \in BOOLEAN, urok \in BOOLEAN :
          LET t == it.task
              kon == cfg.xcap_dump_kernel_stack_traces
              uon == cfg.xcap_dump_user_stack_traces /\ t \notin KThreads
              kc == IF kon /\ (~it.can_use_cached_stack \/ Len(cache[t].cached_kstack) = 0)
                    THEN kread ELSE cache[t].cached_kstack
              uc == IF uon /\ (~it.can_use_cached_stack \/ Len(cache[t].cached_ustack) = 0)
                    THEN uread ELSE cache[t].cached_ustack
              k == IF kon THEN StackEmit(t, kc, emitted_stacks, stack_traces, krok, TRUE)
                   ELSE [hash |-> 0, traces |-> stack_traces, emitted |-> emitted_stacks,
                         new |-> <<>>]
              u == IF uon THEN StackEmit(t, uc, k.emitted, k.traces, urok, FALSE)
                   ELSE [hash |-> 0, traces |-> k.traces, emitted |-> k.emitted,
                         new |-> <<>>]
              ev == [it.event[1] EXCEPT !.kstack_hash = k.hash, !.ustack_hash = u.hash]
          IN  /\ cache' = [cache EXCEPT ![t].cached_kstack = kc, ![t].cached_ustack = uc,
                                        ![t].g_prev = <<ev.on_cpu>>]
              /\ emitted_stacks' = u.emitted
              /\ stack_traces' = u.traces
              /\ storage' = IF cfg.xcap_dump_kernel_stack_traces
                               \/ cfg.xcap_dump_user_stack_traces
                            THEN [storage EXCEPT ![t].last_total_ctxsw = it.total_ctxsw]
                            ELSE storage
              /\ task_samples' = Append(task_samples, ev)
              /\ hist' = Sampled(StacksSent(hist, k.new \o u.new), ev)
    /\ it' = ItNext
    /\ UNCHANGED <<cfg, now, regs, iorq_tracking, rq_live, on_cpu, ctxsw, kstack, ustack,
                   this_iter_loop_start_ktime, completion_events, live, tick, wall, sys, drv, csv>>

\* ------------------------------------------------------------- the driver
\* main.c 1052-1063: a fresh iterator is created and read; the read runs get_tasks
\* over every task
IterRun ==
    /\ it.pc = "idle"
    /\ tick < MaxTicks
    /\ tick' = tick + 1
    /\ it' = [ItIdle EXCEPT !.pc = "visit", !.task = NextTask(NoTask)]
    /\ UNCHANGED <<cfg, now, regs, storage, cache, iorq_tracking, rq_live, emitted_stacks,
                   on_cpu, ctxsw, kstack, ustack, this_iter_loop_start_ktime, task_samples,
                   completion_events, stack_traces, live, hist, wall, sys, drv, csv>>

\* main.c 1065-1100: the iterator is exhausted (get_tasks is called with no task), the
\* read returns, the driver consumes the three rings and sleeps until the next tick
IterDone ==
    /\ it.pc = "visit"
    /\ it.task = NoTask
    /\ it' = ItIdle
    /\ now' = now + 1
    /\ task_samples' = <<>>
    /\ stack_traces' = <<>>
    /\ completion_events' = <<>>
    /\ UNCHANGED <<cfg, regs, storage, cache, iorq_tracking, rq_live, emitted_stacks,
                   on_cpu, ctxsw, kstack, ustack, this_iter_loop_start_ktime,
                   live, tick, hist, wall, sys, drv, csv>>

\* ------------------------------------------------------- the environment
\* time passes
ClockAdvance ==
    /\ now < MaxTime
    /\ now' = now + 1
    /\ UNCHANGED <<cfg, regs, storage, cache, iorq_tracking, rq_live, emitted_stacks,
                   on_cpu, ctxsw, kstack, ustack, it, this_iter_loop_start_ktime,
                   task_samples, completion_events, stack_traces, live, tick, hist, wall, sys, drv, csv>>

\* the scheduler takes the task off its CPU (nvcsw or nivcsw is incremented)
SwitchOut(t) ==
    /\ on_cpu[t]
    /\ ctxsw[t] < MaxCtxsw
    /\ on_cpu' = [on_cpu EXCEPT ![t] = FALSE]
    /\ ctxsw' = [ctxsw EXCEPT ![t] = @ + 1]
    /\ UNCHANGED <<cfg, now, regs, storage, cache, iorq_tracking, rq_live, emitted_stacks,
                   kstack, ustack, it, this_iter_loop_start_ktime, task_samples,
                   completion_events, stack_traces, live, tick, hist, wall, sys, drv, csv>>

SwitchIn(t) ==
    /\ ~on_cpu[t]
    /\ on_cpu' = [on_cpu EXCEPT ![t] = TRUE]
    /\ UNCHANGED <<cfg, now, regs, storage, cache, iorq_tracking, rq_live, emitted_stacks,
                   ctxsw, kstack, ustack, it, this_iter_loop_start_ktime, task_samples,
                   completion_events, stack_traces, live, tick, hist, wall, sys, drv, csv>>

\* a running task calls and returns: its stacks change
StackChange(t) ==
    /\ on_cpu[t]
    /\ \E ks \in Stacks, us \in Stacks :
          /\ <<ks, us>> # <<kstack[t], ustack[t]>>
          /\ kstack' = [kstack EXCEPT ![t] = ks]
          /\ ustack' = [ustack EXCEPT ![t] = us]
    /\ UNCHANGED <<cfg, now, regs, storage, cache, iorq_tracking, rq_live, emitted_stacks,
                   on_cpu, ctxsw, it, this_iter_loop_start_ktime, task_samples,
                   completion_events, stack_traces, live, tick, hist, wall, sys, drv, csv>>

\* ------------------------------------------------------------ the consumer
\* C integer division and remainder truncate toward zero
CDiv(a, b) == IF a >= 0 THEN a \div b ELSE -((-a) \div b)
CMod(a, b) == a - b * CDiv(a, b)
\* a value as __u64, and a __u64 read as __s64
U64(v) == v % U64Mod
S64(v) == IF v >= U64Mod \div 2 THEN v - U64Mod ELSE v

\* get_wall_from_mono without the borrow of a negative tv_nsec
get_wall_from_mono_no_borrow(tcorr, bpf_time) ==
    LET mono_ns == U64(tcorr.mono_time.tv_sec * NsPerSec + tcorr.mono_time.tv_nsec)
        ns_diff == S64(U64(bpf_time - mono_ns))
        nsec == tcorr.wall_time.tv_nsec + CMod(ns_diff, NsPerSec)
        sec == tcorr.wall_time.tv_sec + CDiv(ns_diff, NsPerSec)
    IN  IF nsec >= NsPerSec THEN [tv_sec |-> sec + 1, tv_nsec |-> nsec - NsPerSec]
        ELSE [tv_sec |-> sec, tv_nsec |-> nsec]

\* main.c 682-700
get_wall_from_mono(tcorr, bpf_time) ==
    LET mono_ns == U64(tcorr.mono_time.tv_sec * NsPerSec + tcorr.mono_time.tv_nsec)
        ns_diff == S64(U64(bpf_time - mono_ns))
        nsec == tcorr.wall_time.tv_nsec + CMod(ns_diff, NsPerSec)
        sec == tcorr.wall_time.tv_sec + CDiv(ns_diff, NsPerSec)
    IN  IF nsec >= NsPerSec THEN [tv_sec |-> sec + 1, tv_nsec |-> nsec - NsPerSec]
        ELSE IF nsec < 0 THEN [tv_sec |-> sec - 1, tv_nsec |-> nsec + NsPerSec]
        ELSE [tv_sec |-> sec, tv_nsec |-> nsec]

\* main.c 675-679: the second, and the microseconds of the second
get_str_from_ts(ts) == <<ts.tv_sec, CDiv(ts.tv_nsec, NsPerUs)>>

\* task_handler.c 434-454 and 523-532: the times handle_task_event reports for a sample
handle_task_event(tcorr, st) ==
    LET current_sample_ts_iter_start == get_wall_from_mono(tcorr, st.sample_start_ktime)
        sc_duration_ns == IF st.sc_enter_time > 0
                          THEN U64(st.sample_actual_ktime - st.sc_enter_time) ELSE 0
        current_sc_start_ts ==
            get_wall_from_mono(tcorr, U64(st.sample_actual_ktime - sc_duration_ns))
    IN  [current_sample_ts_iter_start |-> current_sample_ts_iter_start,
         timestamp |-> get_str_from_ts(current_sample_ts_iter_start),
         sc_duration_ns |-> sc_duration_ns,
         current_sc_start_ts |-> IF st.sc_enter_time > 0
                                 THEN <<current_sc_start_ts>> ELSE <<>>,
         sc_start_time_str |-> IF st.sc_enter_time > 0
                               THEN get_str_from_ts(current_sc_start_ts) ELSE <<>>,
         off_us |-> CDiv(U64(st.sample_actual_ktime - st.sample_start_ktime), NsPerUs)]

\* the ring buffer callback runs on a polled TaskSample
HandleTaskEvent ==
    /\ wall.pc = "polled"
    /\ wall' = [pc |-> "reported", tcorr |-> wall.tcorr, storage |-> wall.storage,
                out |-> handle_task_event(wall.tcorr, wall.storage)]
    /\ UNCHANGED kernel_vars

\* everything but the driver's own state and the CSV output
program_vars == <<cfg, now, regs, storage, cache, iorq_tracking, rq_live, emitted_stacks,
          on_cpu, ctxsw, kstack, ustack, it, this_iter_loop_start_ktime,
          task_samples, completion_events, stack_traces, live, tick, hist, wall, sys>>

\* main.c 627: the switch looks at state & 0xFF
StateByteMod == 256

\* main.c 621-656: the STATE column, as the base name (or the hexadecimal fallback with
\* its value) followed by the flags appended to it
format_task_state(state, on_rq, task_on_cpu, migration_pending) ==
    LET low == state % StateByteMod
        base_state == CASE low = 0 -> <<"RUN">>
                        [] low = TASK_INTERRUPTIBLE -> <<"SLEEP">>
                        [] low = TASK_UNINTERRUPTIBLE -> <<"DISK">>
                        [] low = TASK_STOPPED -> <<"STOPPED">>
                        [] low = TASK_DEAD -> <<"DEAD">>
                        [] low = TASK_WAKING -> <<"WAKING">>
                        [] low = TASK_NOLOAD -> <<"NOLOAD">>
                        [] low = TASK_NOLOAD + TASK_UNINTERRUPTIBLE -> <<"IDLE">>
                        [] low = TASK_NEW -> <<"NEW">>
                        [] OTHER -> <<"0x", state>>
    IN  base_state \o (IF on_rq > 0 /\ task_on_cpu = 0 THEN <<"Q">> ELSE <<>>)
                   \o (IF migration_pending # 0 THEN <<"M">> ELSE <<>>)

\* task_handler.c 494: the ring buffer callback formats the state of a polled TaskSample
FormatTaskState ==
    /\ wall.pc = "state_polled"
    /\ wall' = [pc |-> "state_printed", event |-> wall.event,
                out |-> format_task_state(wall.event.state, wall.event.on_rq, wall.event.on_cpu, wall.event.migration_pending)]
    /\ UNCHANGED kernel_vars

\* ------------------------------------------------------------ the hourly CSV files
MaxHour == 1
MaxRows == 1
\* local hours, each standing for one year-month-day.hour
Hours == 0..MaxHour
\* struct output_files, in the order create_output_files opens them
OutputKinds == <<"sample_file", "sc_completion_file", "iorq_completion_file", "kstack_file", "ustack_file", "cgroup_file">>
Kinds == {OutputKinds[i] : i \in 1..Len(OutputKinds)}
\* the lines of a file: a header, or a row tagged with the hour of the rotation check
\* that preceded its write
HeaderLine == <<"header">>
RowLine(h) == <<"row", h>>
CsvOff == [pc |-> "off"]
\* g_ctx = {0}: no stream open, current_year .. current_hour name no hour of the clock
ZeroFiles == [fp |-> [k \in Kinds |-> <<>>], current |-> <<>>]

\* output_writer.c 20-32, with every empty file given a second header on open
open_csv_file_header_always(content, tm) ==
    [hour |-> tm, buf |-> <<HeaderLine>>]

\* output_writer.c 20-32: the stream appends; the header goes into the stream's buffer
\* when the file is empty at the time it is opened
open_csv_file(content, tm) ==
    [hour |-> tm, buf |-> IF Len(content) = 0 THEN <<HeaderLine>> ELSE <<>>]

\* fflush: the buffered lines of stream k are appended to its file
FlushFile(c, k) ==
    LET f == c.files.fp[k][1]
    IN  [c EXCEPT !.disk[f.hour][k] = @ \o f.buf, !.files.fp[k] = <<[f EXCEPT !.buf = <<>>]>>]

RECURSIVE CloseFrom(_, _)
CloseFrom(c, i) ==
    IF i > Len(OutputKinds) THEN c
    ELSE LET k == OutputKinds[i]
         IN  IF c.files.fp[k] = <<>> THEN CloseFrom(c, i + 1)
             ELSE CloseFrom([FlushFile(c, k) EXCEPT !.files.fp[k] = <<>>], i + 1)

\* output_writer.c 132-167: every open stream is flushed and closed
close_output_files(c) == CloseFrom(c, 1)

\* output_writer.c 96, 105: the stack files are opened only when their dump is on
KindWanted(k, ctx) ==
    /\ k = "kstack_file" => ctx.dump_kernel_stack_traces
    /\ k = "ustack_file" => ctx.dump_user_stack_traces

\* output_writer.c 68-129: the files are opened one after the other; fail names the
\* file whose fopen fails. The first failure returns at once, a later one closes
\* what was opened; current_* is set only when all are open
RECURSIVE OpenFrom(_, _, _, _)
OpenFrom(c, i, tm, fail) ==
    IF i > Len(OutputKinds)
    THEN [csv |-> [c EXCEPT !.files.current = <<tm>>], ret |-> 0]
    ELSE LET k == OutputKinds[i]
         IN  IF ~KindWanted(k, c.ctx) THEN OpenFrom(c, i + 1, tm, fail)
             ELSE IF fail = k
             THEN [csv |-> IF i = 1 THEN c ELSE close_output_files(c), ret |-> -1]
             ELSE OpenFrom([c EXCEPT !.files.fp[k] = <<open_csv_file(c.disk[tm][k], tm)>>], i + 1, tm, fail)

\* output_writer.c 49-130
create_output_files(c, tm, fail) == OpenFrom(close_output_files(c), 1, tm, fail)

\* output_writer.c 169-186: c.hour is what localtime(time(NULL)) names
check_and_rotate_files(c, fail) ==
    IF fail = "localtime" THEN [csv |-> c, ret |-> -1]
    ELSE IF c.files.current # <<c.hour>> THEN create_output_files(c, c.hour, fail)
    ELSE IF \E k \in {"sample_file", "sc_completion_file", "iorq_completion_file"} : c.files.fp[k] # <<>>
    THEN [csv |-> c, ret |-> 0]
    ELSE create_output_files(c, c.hour, fail)

\* what can go wrong in one call of check_and_rotate_files: localtime fails, or the
\* fopen of the first file, of a file in the middle or of the last file fails
RotateFails == {"none", "localtime", "sample_file", "sc_completion_file", "cgroup_file"}

\* fprintf of one row to stream k
WriteRow(c, k) ==
    [c EXCEPT !.files.fp[k] = <<[@[1] EXCEPT !.buf = @ \o <<RowLine(c.g_check[1])>>]>>, !.rows = @ + 1]

\* the process ends: every stream is gone, and the next process starts from g_ctx = {0}
ProcessGone(c) == [c EXCEPT !.pc = "down", !.files = ZeroFiles, !.g_check = <<>>]

\* main.c 777-785: a process starts with CSV output and opens the files of the hour
CsvStart ==
    /\ csv.pc = "down"
    /\ \E fail \in RotateFails :
          LET r == check_and_rotate_files(csv, fail)
          IN  csv' = IF r.ret # 0 THEN ProcessGone(r.csv)
                     ELSE [r.csv EXCEPT !.pc = "up", !.g_check = <<csv.hour>>]
    /\ UNCHANGED program_vars
    /\ UNCHANGED drv

\* task_handler.c 480-532, tracking_handler.c 74-125 and 163-190: a handler checks the
\* rotation and writes its row; a failed check makes it return -1, the poll fails and
\* main leaves through cleanup, which closes the files (main.c 1069-1096, 1153)
CsvHandle(k) ==
    /\ csv.pc = "up"
    /\ csv.rows < MaxRows
    /\ \E fail \in RotateFails :
          LET r == check_and_rotate_files(csv, fail)
          IN  csv' = IF r.ret < 0 THEN ProcessGone(close_output_files(r.csv))
                     ELSE WriteRow([r.csv EXCEPT !.g_check = <<csv.hour>>], k)
    /\ UNCHANGED program_vars
    /\ UNCHANGED drv

\* task_handler.c 627-640: handle_stack_event writes to the stack file that is open,
\* without a rotation check of its own
CsvStackRow(k) ==
    /\ csv.pc = "up"
    /\ csv.rows < MaxRows
    /\ csv.files.fp[k] # <<>>
    /\ csv' = WriteRow(csv, k)
    /\ UNCHANGED program_vars
    /\ UNCHANGED drv

RECURSIVE FlushFrom(_, _)
FlushFrom(c, i) ==
    IF i > Len(OutputKinds) THEN c
    ELSE LET k == OutputKinds[i]
         IN  FlushFrom(IF c.files.fp[k] = <<>> THEN c ELSE FlushFile(c, k), i + 1)

\* stdio writes out what the streams buffer. All streams are written out in one step:
\* no file's content depends on when another file's stream is written out
CsvFlush ==
    /\ csv.pc = "up"
    /\ \E k \in Kinds : csv.files.fp[k] # <<>> /\ csv.files.fp[k][1].buf # <<>>
    /\ csv' = FlushFrom(csv, 1)
    /\ UNCHANGED program_vars
    /\ UNCHANGED drv

\* the local clock moves to another hour (forward, or back when the clock is set)
CsvHour(h) ==
    /\ csv.hour # h
    /\ csv' = [csv EXCEPT !.hour = h]
    /\ UNCHANGED program_vars
    /\ UNCHANGED drv

\* main.c 1149-1153: the loop was left, cleanup closes the files
CsvExit ==
    /\ csv.pc = "up"
    /\ csv' = ProcessGone(close_output_files(csv))
    /\ UNCHANGED program_vars
    /\ UNCHANGED drv

\* the process is killed: what its streams still buffer is lost
CsvKill ==
    /\ csv.pc = "up"
    /\ csv' = ProcessGone(csv)
    /\ UNCHANGED program_vars
    /\ UNCHANGED drv

\* ------------------------------------------------------------ the driver's main()
DrvOff == [pc |-> "off"]
MaxEvents == 1
MaxIterations == 2
\* negated errno values as libbpf and the helpers return them: -EPERM, -EACCES
ErrVals == {-1, -13}
EINVAL == 22
\* the status the parent sees when main returns v
ExitStatus(v) == v % 256

\* main.c 809-1005 in order: each call that can fail before the sampling loop, the
\* options under which it is made, and whether its result is assigned to err
\* (a skeleton or ring buffer that comes back NULL leaves err as it was)
StartupSteps ==
    << [name |-> "task_bpf__open",      csv |-> BOOLEAN, active |-> BOOLEAN, sc |-> BOOLEAN, iorq |-> BOOLEAN, stacks |-> BOOLEAN, assigns |-> FALSE],
       [name |-> "parse_column_list",   csv |-> {FALSE}, active |-> BOOLEAN, sc |-> BOOLEAN, iorq |-> BOOLEAN, stacks |-> BOOLEAN, assigns |-> FALSE],
       [name |-> "task_bpf__load",      csv |-> BOOLEAN, active |-> BOOLEAN, sc |-> BOOLEAN, iorq |-> BOOLEAN, stacks |-> BOOLEAN, assigns |-> TRUE],
       [name |-> "pin_task_maps",       csv |-> BOOLEAN, active |-> BOOLEAN, sc |-> BOOLEAN, iorq |-> BOOLEAN, stacks |-> BOOLEAN, assigns |-> TRUE],
       [name |-> "task_bpf__attach",    csv |-> BOOLEAN, active |-> BOOLEAN, sc |-> BOOLEAN, iorq |-> BOOLEAN, stacks |-> BOOLEAN, assigns |-> TRUE],
       [name |-> "tracking_rb",         csv |-> BOOLEAN, active |-> {TRUE},  sc |-> BOOLEAN, iorq |-> BOOLEAN, stacks |-> BOOLEAN, assigns |-> FALSE],
       [name |-> "syscall_bpf__open",   csv |-> BOOLEAN, active |-> {TRUE},  sc |-> {TRUE},  iorq |-> BOOLEAN, stacks |-> BOOLEAN, assigns |-> FALSE],
       [name |-> "reuse_syscall_maps",  csv |-> BOOLEAN, active |-> {TRUE},  sc |-> {TRUE},  iorq |-> BOOLEAN, stacks |-> BOOLEAN, assigns |-> TRUE],
       [name |-> "syscall_bpf__load",   csv |-> BOOLEAN, active |-> {TRUE},  sc |-> {TRUE},  iorq |-> BOOLEAN, stacks |-> BOOLEAN, assigns |-> TRUE],
       [name |-> "syscall_bpf__attach", csv |-> BOOLEAN, active |-> {TRUE},  sc |-> {TRUE},  iorq |-> BOOLEAN, stacks |-> BOOLEAN, assigns |-> TRUE],
       [name |-> "iorq_bpf__open",      csv |-> BOOLEAN, active |-> {TRUE},  sc |-> BOOLEAN, iorq |-> {TRUE},  stacks |-> BOOLEAN, assigns |-> FALSE],
       [name |-> "reuse_iorq_maps",     csv |-> BOOLEAN, active |-> {TRUE},  sc |-> BOOLEAN, iorq |-> {TRUE},  stacks |-> BOOLEAN, assigns |-> TRUE],
       [name |-> "iorq_bpf__load",      csv |-> BOOLEAN, active |-> {TRUE},  sc |-> BOOLEAN, iorq |-> {TRUE},  stacks |-> BOOLEAN, assigns |-> TRUE],
       [name |-> "iorq_bpf__attach",    csv |-> BOOLEAN, active |-> {TRUE},  sc |-> BOOLEAN, iorq |-> {TRUE},  stacks |-> BOOLEAN, assigns |-> FALSE],
       [name |-> "task_rb",             csv |-> BOOLEAN, active |-> BOOLEAN, sc |-> BOOLEAN, iorq |-> BOOLEAN, stacks |-> BOOLEAN, assigns |-> FALSE],
       [name |-> "stack_rb",            csv |-> BOOLEAN, active |-> BOOLEAN, sc |-> BOOLEAN, iorq |-> BOOLEAN, stacks |-> {TRUE},  assigns |-> FALSE] >>

\* the call is made under the options opt
StepMade(s, opt) ==
    /\ opt.output_csv \in s.csv
    /\ (~opt.passive_only) \in s.active
    /\ opt.track_syscalls \in s.sc
    /\ opt.track_iorq \in s.iorq
    /\ opt.stacks \in s.stacks

\* main returns v
DrvReturn(v, failed) ==
    drv' = [drv EXCEPT !.pc = "exited", !.status = <<ExitStatus(v)>>, !.g_failed = failed]

\* main.c 736-775: argp_parse, then the checks for conflicting options
DrvArgs ==
    /\ drv.pc = "args"
    /\ \E parse_err \in {0, EINVAL} :
          IF parse_err # 0 THEN DrvReturn(parse_err, <<"argp_parse">>)
          ELSE IF drv.opt.passive_only /\ (drv.opt.track_syscalls \/ drv.opt.track_iorq)
          THEN DrvReturn(1, <<"conflicting arguments">>)
          ELSE drv' = [drv EXCEPT !.pc = "output", !.err = 0]
    /\ UNCHANGED program_vars
    /\ UNCHANGED csv

\* main.c 777-785: with CSV output the directory and the hourly files are opened
DrvOutput ==
    /\ drv.pc = "output"
    /\ IF ~drv.opt.output_csv THEN drv' = [drv EXCEPT !.pc = "startup"] /\ UNCHANGED csv
       ELSE \E dir \in {0, -1}, fail \in RotateFails :
               LET r == check_and_rotate_files(csv, fail)
               IN  IF dir # 0 THEN DrvReturn(dir, <<"ensure_output_dirname">>) /\ UNCHANGED csv
                   ELSE IF r.ret # 0
                   THEN DrvReturn(r.ret, <<"check_and_rotate_files">>) /\ csv' = r.csv
                   ELSE /\ drv' = [drv EXCEPT !.pc = "startup", !.err = 0]
                        /\ csv' = [r.csv EXCEPT !.pc = "up", !.g_check = <<csv.hour>>]
    /\ UNCHANGED program_vars

\* main.c 809-1005: the next call of the start-up sequence; on failure goto cleanup
DrvStartupStep ==
    /\ drv.pc = "startup"
    /\ LET s == StartupSteps[drv.step]
           next == IF drv.step = Len(StartupSteps)
                   THEN [drv EXCEPT !.pc = "loop"]
                   ELSE [drv EXCEPT !.step = @ + 1]
       IN  IF ~StepMade(s, drv.opt) THEN drv' = next
           ELSE \E r \in {0} \cup ErrVals :
                   IF r = 0
                   THEN drv' = [next EXCEPT !.err = IF s.assigns THEN 0 ELSE @]
                   ELSE drv' = [drv EXCEPT !.pc = "cleanup",
                                           !.err = IF s.assigns THEN r ELSE @,
                                           !.g_failed = <<s.name>>]
    /\ UNCHANGED program_vars
    /\ UNCHANGED csv

\* the sampling loop with reset_unique_stacks moved below the read of the iterator
DrvLoopTop_reset_after_trigger ==
    /\ drv.pc = "loop"
    /\ IF drv.exiting THEN drv' = [drv EXCEPT !.pc = "cleanup"]
       ELSE \E iter_fd \in {3, -1} :
               IF iter_fd < 0
               THEN drv' = [drv EXCEPT !.pc = "cleanup", !.err = -1,
                                       !.g_ops = <<"clock_pair">>]
               ELSE /\ drv.g_ticks <= MaxIterations
                    /\ drv' = [drv EXCEPT !.pc = "poll_task", !.g_ticks = @ + 1,
                                          !.g_ops = <<"clock_pair", "trigger",
                                                      "reset_unique_stacks">>]
    /\ UNCHANGED program_vars
    /\ UNCHANGED csv

\* main.c 1031-1063: top of the sampling loop: the clock pair is taken (1033-1034),
\* the unique stacks are reset (1041), the iterator is created and read (1048-1063).
\* g_ops lists the calls of the current pass through the loop in the order made
DrvLoopTop ==
    /\ drv.pc = "loop"
    /\ IF drv.exiting THEN drv' = [drv EXCEPT !.pc = "cleanup"]
       ELSE \E iter_fd \in {3, -1} :
               IF iter_fd < 0
               THEN drv' = [drv EXCEPT !.pc = "cleanup", !.err = -1,
                                       !.g_ops = <<"clock_pair", "reset_unique_stacks">>]
               ELSE /\ drv.g_ticks <= MaxIterations
                    /\ drv' = [drv EXCEPT !.pc = "poll_task", !.g_ticks = @ + 1,
                                          !.g_ops = <<"clock_pair", "reset_unique_stacks",
                                                      "trigger">>]
    /\ UNCHANGED program_vars
    /\ UNCHANGED csv

\* ring_buffer__poll: n records are consumed, or the poll itself fails with r < 0;
\* fail is what goes wrong in a handler's call of check_and_rotate_files
PollResults ==
    [n : 0..MaxEvents, r : {0}, fail : RotateFails] \cup [n : {0}, r : ErrVals, fail : {"none"}]

\* main.c 1069-1096: one poll; err < 0 leaves the loop by goto cleanup. With CSV
\* output the handler of a record checks the rotation before it writes its row to
\* file k, and a failed check makes it return -1, which the poll returns (rotates);
\* handle_stack_event writes to its file when it is open
DrvPoll(p, then, k, rotates) ==
    LET r == check_and_rotate_files(csv, p.fail)
        handled == drv.opt.output_csv /\ p.n > 0
        checked == [r.csv EXCEPT !.g_check = <<csv.hour>>]
        polled == [drv EXCEPT !.g_ops = Append(@, drv.pc)]
    IN  IF p.r < 0
        THEN drv' = [polled EXCEPT !.pc = "cleanup", !.err = p.r] /\ UNCHANGED csv
        ELSE IF rotates /\ handled /\ r.ret < 0
        THEN drv' = [polled EXCEPT !.pc = "cleanup", !.err = -1, !.g_rot = TRUE] /\ csv' = r.csv
        ELSE /\ drv' = [polled EXCEPT !.pc = then, !.err = p.n]
             /\ csv' = IF rotates /\ handled
                       THEN IF csv.rows < MaxRows THEN WriteRow(checked, k) ELSE checked
                       ELSE IF handled /\ csv.rows < MaxRows /\ csv.files.fp[k] # <<>>
                       THEN WriteRow(csv, k) ELSE csv

\* main.c 1069-1073, task_handler.c 480-484
DrvPollTask ==
    /\ drv.pc = "poll_task"
    /\ \E p \in PollResults :
          DrvPoll(p, IF drv.opt.stacks THEN "poll_stack" ELSE IF ~drv.opt.passive_only THEN "poll_tracking" ELSE "sleep", "sample_file", TRUE)
    /\ UNCHANGED program_vars

\* main.c 1076-1082, task_handler.c 627-640
DrvPollStack ==
    /\ drv.pc = "poll_stack"
    /\ \E p \in PollResults :
          DrvPoll(p, IF ~drv.opt.passive_only THEN "poll_tracking" ELSE "sleep", "kstack_file", FALSE)
    /\ UNCHANGED program_vars

\* main.c 1085-1096, tracking_handler.c 74-78 and 163-167
DrvPollTracking ==
    /\ drv.pc = "poll_tracking"
    /\ \E p \in PollResults : DrvPoll(p, "sleep", "sc_completion_file", TRUE)
    /\ UNCHANGED program_vars

\* main.c 1098-1135: the unique stacks are printed with -s in plain text mode
\* (1099-1101), then the pass sleeps for the rest of the interval or warns (1121-1135)
TickEnd ==
    [drv EXCEPT !.g_ops = @ \o (IF ~drv.opt.output_csv /\ drv.print_stack_traces
                                 THEN <<"print_unique_stacks">> ELSE <<>>)
                             \o <<"sleep">>]

\* main.c 1098-1142 leaving the loop only when the count has passed max_iterations
DrvSleep_one_more ==
    /\ drv.pc = "sleep"
    /\ IF drv.opt.max_iterations > 0
       THEN IF drv.iteration_count + 1 > drv.opt.max_iterations
            THEN drv' = [TickEnd EXCEPT !.pc = "cleanup", !.iteration_count = @ + 1]
            ELSE drv' = [TickEnd EXCEPT !.pc = "loop", !.iteration_count = @ + 1]
       ELSE drv' = [TickEnd EXCEPT !.pc = "loop"]
    /\ UNCHANGED program_vars
    /\ UNCHANGED csv

\* main.c 1098-1142: sleep until the next tick; with -i N leave after N iterations
DrvSleep ==
    /\ drv.pc = "sleep"
    /\ IF drv.opt.max_iterations > 0
       THEN IF drv.iteration_count + 1 >= drv.opt.max_iterations
            THEN drv' = [TickEnd EXCEPT !.pc = "cleanup", !.iteration_count = @ + 1]
            ELSE drv' = [TickEnd EXCEPT !.pc = "loop", !.iteration_count = @ + 1]
       ELSE drv' = [TickEnd EXCEPT !.pc = "loop"]
    /\ UNCHANGED program_vars
    /\ UNCHANGED csv

\* main.c 562-566: SIGINT, SIGTERM or SIGPIPE arrives
DrvSignal ==
    /\ drv.pc \in {"startup", "loop", "poll_task", "poll_stack", "poll_tracking", "sleep"}
    /\ ~drv.exiting
    /\ drv' = [drv EXCEPT !.exiting = TRUE]
    /\ UNCHANGED program_vars
    /\ UNCHANGED csv

\* main.c 1145-1191: the files are closed, everything is released, main returns
\* err < 0 ? -err : 0
DrvCleanup ==
    /\ drv.pc = "cleanup"
    /\ drv' = [drv EXCEPT !.pc = "exited",
                          !.status = <<ExitStatus(IF drv.err < 0 THEN -drv.err ELSE 0)>>]
    /\ csv' = IF drv.opt.output_csv THEN close_output_files(csv) ELSE csv
    /\ UNCHANGED program_vars

Driver ==
    \/ DrvArgs \/ DrvOutput \/ DrvStartupStep \/ DrvLoopTop \/ DrvPollTask
    \/ DrvPollStack \/ DrvPollTracking \/ DrvSleep \/ DrvSignal \/ DrvCleanup

\* ------------------------------------------------------- specifications
WallIdle == [pc |-> "off"]

Config(show_all, kstacks, ustacks, syscalls, iorq) ==
    [xcap_show_all |-> show_all,
     xcap_dump_kernel_stack_traces |-> kstacks,
     xcap_dump_user_stack_traces |-> ustacks,
     xcap_xcapture_pid |-> 0,
     xcap_daemon_ports |-> xcap_daemon_ports,
     filter_tgid |-> 0, HAVE_BPF_ITER_TASK_LINK_INFO |-> TRUE,
     track_syscalls |-> syscalls, track_iorq |-> iorq]

\* the state after the programs are loaded and attached: every map is empty, the
\* tasks and requests of the system are wherever they were
NoHist == [sc_samples |-> {}, sc_during |-> {}, iorq_created |-> {}, iorq_samples |-> {}, starts |-> {},
           sc_compl |-> {}, sc_dropped |-> {}, stacks |-> {}]

InitMaps ==
    /\ now = 1
    /\ storage = [t \in Tasks |-> ZeroState]
    /\ cache = [t \in Tasks |-> ZeroCache]
    /\ iorq_tracking = [rq \in Rqs |-> <<>>]
    /\ emitted_stacks = {}
    /\ it = ItIdle
    /\ this_iter_loop_start_ktime = 0
    /\ task_samples = <<>>
    /\ completion_events = <<>>
    /\ stack_traces = <<>>
    /\ tick = 0
    /\ hist = NoHist

Sampler == IterRun \/ GtVisit \/ GtMark \/ GtReserve \/ GtIorq \/ GtStacks \/ IterDone

\* xcapture -t syscall: the sampler and the syscall probes; a task may be blocked in
\* a read when the probes attach, and enters other syscalls afterwards
BlockedIn == {0}
InitSyscall ==
    /\ InitMaps
    /\ drv = DrvOff
    /\ csv = CsvOff
    /\ wall = WallIdle
    /\ sys = SysDefault
    /\ cfg = Config(FALSE, FALSE, FALSE, TRUE, FALSE)
    /\ live = {1}
    /\ regs \in [Tasks -> {-1} \cup BlockedIn]
    /\ \A t \in Tasks \ live : regs[t] = -1
    /\ rq_live = [rq \in Rqs |-> "free"]
    /\ on_cpu = [t \in Tasks |-> FALSE]
    /\ ctxsw = [t \in Tasks |-> 0]
    /\ kstack = [t \in Tasks |-> <<1>>]
    /\ ustack = [t \in Tasks |-> <<1>>]

NextSyscall ==
    \/ Sampler
    \/ ClockAdvance
    \/ \E t \in live, nr \in Syscalls \ BlockedIn : SysEnter(t, nr)
    \/ \E t \in live : SysExit(t)

SpecSyscall == InitSyscall /\ [][NextSyscall]_vars

\* xcapture -t syscall over two threads of one process that enter and leave read()
\* before, during and after one pass of the sampler: each is first met by the
\* sampler or by the probes, in either order
InitPids ==
    /\ InitMaps
    /\ drv = DrvOff
    /\ csv = CsvOff
    /\ wall = WallIdle
    /\ sys = SysDefault
    /\ cfg = Config(FALSE, FALSE, FALSE, TRUE, FALSE)
    /\ live = Tasks
    /\ regs \in [Tasks -> {-1} \cup BlockedIn]
    /\ rq_live = [rq \in Rqs |-> "free"]
    /\ on_cpu = [t \in Tasks |-> FALSE]
    /\ ctxsw = [t \in Tasks |-> 0]
    /\ kstack = [t \in Tasks |-> <<1>>]
    /\ ustack = [t \in Tasks |-> <<1>>]

NextPids ==
    \/ tick = 0 /\ IterRun
    \/ GtVisit \/ GtMark \/ GtReserve \/ GtIorq \/ GtStacks \/ IterDone
    \/ \E t \in live : SysEnter(t, 0)
    \/ \E t \in live : SysExit(t)

SpecPids == InitPids /\ [][NextPids]_vars

\* the sampler alone, over two tasks, with the clock running
InitSample ==
    /\ InitMaps
    /\ drv = DrvOff
    /\ csv = CsvOff
    /\ wall = WallIdle
    /\ sys = SysDefault
    /\ cfg \in {Config(a, FALSE, FALSE, FALSE, FALSE) : a \in BOOLEAN}
    /\ live = Tasks
    /\ regs \in [Tasks -> {-1} \cup Syscalls]
    /\ rq_live = [rq \in Rqs |-> "free"]
    /\ on_cpu = [t \in Tasks |-> FALSE]
    /\ ctxsw = [t \in Tasks |-> 0]
    /\ kstack = [t \in Tasks |-> <<1>>]
    /\ ustack = [t \in Tasks |-> <<1>>]

NextSample == Sampler \/ ClockAdvance

SpecSample == InitSample /\ [][NextSample]_vars

\* xcapture -t iorq: the sampler and the block-I/O probes
InitIorq ==
    /\ InitMaps
    /\ drv = DrvOff
    /\ csv = CsvOff
    /\ wall = WallIdle
    /\ sys = SysDefault
    /\ cfg = Config(TRUE, FALSE, FALSE, FALSE, TRUE)
    /\ live = {1}
    /\ regs = [t \in Tasks |-> -1]
    /\ rq_live = [rq \in Rqs |-> "free"]
    /\ on_cpu = [t \in Tasks |-> FALSE]
    /\ ctxsw = [t \in Tasks |-> 0]
    /\ kstack = [t \in Tasks |-> <<1>>]
    /\ ustack = [t \in Tasks |-> <<1>>]

NextIorq ==
    \/ Sampler
    \/ \E t \in live, rq \in Rqs : IorqInsert(t, rq)
    \/ \E t \in live, rq \in Rqs : IorqIssue(t, rq)
    \/ \E rq \in Rqs : IorqComplete(rq)
    \/ \E rq \in Rqs : RqMerge(rq)

SpecIorq == InitIorq /\ [][NextIorq]_vars

\* xcapture -t iorq with a kernel worker: task 1 queues and issues requests, task 2 is
\* a kblockd worker that dispatches queued requests and is idle whenever the sampler
\* passes; the sampler makes one pass; a request may be with the driver already when
\* the probes attach
SysBlock ==
    [SysDefault EXCEPT
        !.kthreads = {2},
        !.tgid = [t \in Tasks |-> IF t = 2 THEN 2 ELSE 10],
        !.task_states = [t \in Tasks |-> IF t = 2 THEN {TASK_UNINTERRUPTIBLE + TASK_NOLOAD}
                                          ELSE TaskStates]]

InitBlock ==
    /\ InitMaps
    /\ drv = DrvOff
    /\ csv = CsvOff
    /\ wall = WallIdle
    /\ sys = SysBlock
    /\ cfg = Config(TRUE, FALSE, FALSE, FALSE, TRUE)
    /\ live = Tasks
    /\ regs = [t \in Tasks |-> -1]
    /\ rq_live \in [Rqs -> {"free", "issued"}]
    /\ on_cpu = [t \in Tasks |-> FALSE]
    /\ ctxsw = [t \in Tasks |-> 0]
    /\ kstack = [t \in Tasks |-> <<1>>]
    /\ ustack = [t \in Tasks |-> <<1>>]

NextBlock ==
    \/ tick = 0 /\ IterRun
    \/ GtVisit \/ GtMark \/ GtReserve \/ GtIorq \/ GtStacks \/ IterDone
    \/ \E rq \in Rqs : IorqInsert(1, rq)
    \/ \E rq \in Rqs : IorqIssue(1, rq)
    \/ \E rq \in Rqs : IorqDispatch(2, rq)
    \/ \E rq \in Rqs : IorqComplete(rq)
    \/ \E rq \in Rqs : RqMerge(rq)

SpecBlock == InitBlock /\ [][NextBlock]_vars

\* xcapture -t iorq after the rings have wrapped: the bytes of a new record are those
\* of an older record about either task
SysRing ==
    [SysDefault EXCEPT !.ring_pages = {RingPage(w) : w \in {0} \cup Tasks},
                       !.sample_pages = {SamplePage(w) : w \in {0} \cup Tasks}]

InitRing ==
    /\ InitMaps
    /\ drv = DrvOff
    /\ csv = CsvOff
    /\ wall = WallIdle
    /\ sys = SysRing
    /\ cfg = Config(TRUE, FALSE, FALSE, FALSE, TRUE)
    /\ live = {1}
    /\ regs = [t \in Tasks |-> -1]
    /\ rq_live = [rq \in Rqs |-> "free"]
    /\ on_cpu = [t \in Tasks |-> FALSE]
    /\ ctxsw = [t \in Tasks |-> 0]
    /\ kstack = [t \in Tasks |-> <<1>>]
    /\ ustack = [t \in Tasks |-> <<1>>]

NextRing == NextIorq

SpecRing == InitRing /\ [][NextRing]_vars

\* xcapture -k -u: the sampler with stack collection, over a task that runs, calls,
\* returns and is scheduled out and in
InitStack ==
    /\ InitMaps
    /\ drv = DrvOff
    /\ csv = CsvOff
    /\ wall = WallIdle
    /\ sys = SysDefault
    /\ cfg \in {Config(TRUE, k, u, FALSE, FALSE) : k \in BOOLEAN, u \in BOOLEAN} \
                 {Config(TRUE, FALSE, FALSE, FALSE, FALSE)}
    /\ live = {1}
    /\ regs = [t \in Tasks |-> -1]
    /\ rq_live = [rq \in Rqs |-> "free"]
    /\ on_cpu \in [Tasks -> BOOLEAN]
    /\ \A t \in Tasks \ live : ~on_cpu[t]
    /\ ctxsw = [t \in Tasks |-> 0]
    /\ kstack \in [Tasks -> Stacks]
    /\ ustack \in [Tasks -> Stacks]
    /\ \A t \in Tasks \ live : kstack[t] = <<1>> /\ ustack[t] = <<1>>

NextStack ==
    \/ Sampler
    \/ \E t \in live : SwitchOut(t)
    \/ \E t \in live : SwitchIn(t)
    \/ \E t \in live : StackChange(t)

SpecStack == InitStack /\ [][NextStack]_vars

\* xcapture -k over deep kernel stacks: the stacks are runs of one address of every
\* length up to MaxStackLen, ending in either address
MaxStackLen == 21
Run(n) == [i \in 1..n |-> 1]
DeepStacks == {Run(n) \o <<a>> : n \in 0..(MaxStackLen - 1), a \in Addrs}

InitHash ==
    /\ InitMaps
    /\ drv = DrvOff
    /\ csv = CsvOff
    /\ wall = WallIdle
    /\ sys = SysDefault
    /\ cfg = Config(TRUE, TRUE, FALSE, FALSE, FALSE)
    /\ live = {1}
    /\ regs = [t \in Tasks |-> -1]
    /\ rq_live = [rq \in Rqs |-> "free"]
    /\ on_cpu = [t \in Tasks |-> FALSE]
    /\ ctxsw = [t \in Tasks |-> 0]
    /\ kstack \in [Tasks -> DeepStacks]
    /\ \A t \in Tasks \ live : kstack[t] = <<1>>
    /\ ustack = [t \in Tasks |-> <<1>>]

NextHash == Sampler

SpecHash == InitHash /\ [][NextHash]_vars

\* the consumer alone: a clock pair captured by the driver (main.c 1033-1034) and a
\* polled TaskSample whose times the sampler and the probes wrote
Timespecs(secs) == [tv_sec : secs, tv_nsec : 0..(NsPerSec - 1)]
InitWall ==
    /\ InitMaps
    /\ drv = DrvOff
    /\ csv = CsvOff
    /\ sys = SysDefault
    /\ cfg = Config(FALSE, FALSE, FALSE, FALSE, FALSE)
    /\ live = {}
    /\ regs = [t \in Tasks |-> -1]
    /\ rq_live = [rq \in Rqs |-> "free"]
    /\ on_cpu = [t \in Tasks |-> FALSE]
    /\ ctxsw = [t \in Tasks |-> 0]
    /\ kstack = [t \in Tasks |-> <<1>>]
    /\ ustack = [t \in Tasks |-> <<1>>]
    /\ \E wt \in Timespecs({WallSec}), mt \in Timespecs(0..MaxMonoSec),
          start \in 1..MaxKtime, actual \in 1..MaxKtime, enter \in 0..MaxKtime :
          /\ start <= actual
          /\ wall = [pc |-> "polled",
                     tcorr |-> [wall_time |-> wt, mono_time |-> mt],
                     storage |-> [sample_start_ktime |-> start,
                                  sample_actual_ktime |-> actual,
                                  sc_enter_time |-> enter]]

\* a clock pair as the driver captures it at start-up: the monotonic clock at zero
Tcorr0 == [wall_time |-> [tv_sec |-> WallSec, tv_nsec |-> 0],
           mono_time |-> [tv_sec |-> 0, tv_nsec |-> 0]]

NextWall == HandleTaskEvent

SpecWall == InitWall /\ [][NextWall]_vars

\* the sampler's interest filter, over one task that is found in every state, syscall
\* and argument the filter distinguishes
MaxBacklog == 1
DaemonPorts == {0, 10000, 65535}
FilterStates == {0, 1, 2, 1026}
FilterSocks ==
    {NoSock, Sock("tcp", TRUE, 80), Sock("unix", FALSE, 0), Sock("udp", FALSE, 53)}
        \cup {Sock("tcp", FALSE, p) : p \in {1, 22, 40000, 65535}}
NoRing == Ring(FALSE, Backlog(0), Backlog(0))
\* what a task can be found doing: its syscall (read, write, nanosleep, io_getevents,
\* io_uring_enter, or none) and what the syscall's first argument names
Doing(nr, sock, ring, aio) == [nr |-> nr, sock |-> sock, ring |-> ring, aio |-> aio]
AsyncDoings ==
    {Doing(35, NoSock, NoRing, Inflight(0))}
        \cup {Doing(208, NoSock, NoRing, Inflight(aio)) : aio \in 0..MaxBacklog}
        \cup {Doing(426, NoSock, Ring(found, Backlog(sq), Backlog(cq)), Inflight(0)) :
                  found \in BOOLEAN, sq \in 0..MaxBacklog, cq \in 0..MaxBacklog}
Doings ==
    {Doing(-1, NoSock, NoRing, Inflight(0))} \cup AsyncDoings
        \cup {Doing(nr, sock, NoRing, Inflight(0)) : nr \in {0, 1}, sock \in FilterSocks}

\* the task is in the given state and syscall
TaskDoes(t, state, d) ==
    /\ regs' = [regs EXCEPT ![t] = d.nr]
    /\ sys' = [sys EXCEPT !.task_states[t] = {state}, !.socks[t] = {d.sock},
                          !.rings[t] = {d.ring}, !.aio[t] = {d.aio}]

\* between two ticks the task leaves its syscall, runs, and waits somewhere else
TaskMoves(t) ==
    /\ it.pc = "idle"
    /\ tick < MaxTicks
    /\ \E state \in {0, TASK_INTERRUPTIBLE}, d \in AsyncDoings :
          /\ <<{state}, d.nr, {d.ring}, {d.aio}>>
                 # <<sys.task_states[t], regs[t], sys.rings[t], sys.aio[t]>>
          /\ TaskDoes(t, state, d)
    /\ UNCHANGED <<cfg, now, storage, cache, iorq_tracking, rq_live, emitted_stacks,
                   on_cpu, ctxsw, kstack, ustack, it, this_iter_loop_start_ktime,
                   task_samples, completion_events, stack_traces, live, tick, hist, wall, drv, csv>>

InitInterest ==
    /\ InitMaps
    /\ drv = DrvOff
    /\ csv = CsvOff
    /\ wall = WallIdle
    /\ cfg \in {[Config(a, FALSE, FALSE, FALSE, FALSE) EXCEPT !.xcap_daemon_ports = p] :
                   a \in BOOLEAN, p \in DaemonPorts}
    /\ live = {1}
    /\ \E state \in FilterStates, d \in Doings :
          /\ regs = [t \in Tasks |-> IF t = 1 THEN d.nr ELSE -1]
          /\ sys = [SysDefault EXCEPT !.task_states[1] = {state}, !.socks[1] = {d.sock},
                                      !.rings[1] = {d.ring}, !.aio[1] = {d.aio}]
    /\ rq_live = [rq \in Rqs |-> "free"]
    /\ on_cpu = [t \in Tasks |-> FALSE]
    /\ ctxsw = [t \in Tasks |-> 0]
    /\ kstack = [t \in Tasks |-> <<1>>]
    /\ ustack = [t \in Tasks |-> <<1>>]

NextInterest == Sampler

SpecInterest == InitInterest /\ [][NextInterest]_vars

\* the sampler over one task that waits on AIO and io_uring rings, a different one at
\* every tick; show_all is off
InitAsync ==
    /\ InitMaps
    /\ drv = DrvOff
    /\ csv = CsvOff
    /\ wall = WallIdle
    /\ cfg = Config(FALSE, FALSE, FALSE, FALSE, FALSE)
    /\ live = {1}
    /\ \E state \in {0, TASK_INTERRUPTIBLE}, d \in AsyncDoings :
          /\ regs = [t \in Tasks |-> IF t = 1 THEN d.nr ELSE -1]
          /\ sys = [SysDefault EXCEPT !.task_states[1] = {state}, !.socks[1] = {d.sock},
                                      !.rings[1] = {d.ring}, !.aio[1] = {d.aio}]
    /\ rq_live = [rq \in Rqs |-> "free"]
    /\ on_cpu = [t \in Tasks |-> FALSE]
    /\ ctxsw = [t \in Tasks |-> 0]
    /\ kstack = [t \in Tasks |-> <<1>>]
    /\ ustack = [t \in Tasks |-> <<1>>]

NextAsync ==
    \/ Sampler
    \/ \E t \in live : TaskMoves(t)

SpecAsync == InitAsync /\ [][NextAsync]_vars

\* the backlog counts over a sleeping task that enters io_getevents or io_uring_enter
\* with syscall tracking on: its aio ring holds any header of up to MaxNr slots, read
\* or not, or its io_uring queues hold any counters of a ring of 1, 2 or 4 entries,
\* the head just before or after the 32-bit wrap
MaxNr == 3
AioHeaders ==
    {AioRing(read, nr, head, tail) : read \in {"ok", "no_head", "no_tail"},
         nr \in 1..MaxNr, head \in 0..(MaxNr - 1), tail \in 0..(MaxNr - 1)}
RingSizes == {1, 2, 4}
Queues ==
    {Queue(head, (head + n) % U32Mod, size - 1) :
         head \in {0, U32Mod - 2, UINT32_MAX}, n \in 0..4, size \in RingSizes}
InitBacklog ==
    /\ InitMaps
    /\ drv = DrvOff
    /\ csv = CsvOff
    /\ wall = WallIdle
    /\ cfg = Config(FALSE, FALSE, FALSE, TRUE, FALSE)
    /\ live = {1}
    /\ regs = [t \in Tasks |-> -1]
    /\ \/ \E ring \in AioHeaders :
             /\ ring.head < ring.nr /\ ring.tail < ring.nr
             /\ sys = [SysDefault EXCEPT !.task_states[1] = {TASK_INTERRUPTIBLE},
                                         !.aio[1] = {ring}]
       \/ \E sq \in Queues, cq \in Queues :
             /\ (U32Mod + sq.tail - sq.head) % U32Mod <= sq.mask + 1
             /\ (U32Mod + cq.tail - cq.head) % U32Mod <= cq.mask + 1
             /\ sys = [SysDefault EXCEPT !.task_states[1] = {TASK_INTERRUPTIBLE},
                                         !.rings[1] = {Ring(TRUE, sq, cq)}]
    /\ rq_live = [rq \in Rqs |-> "free"]
    /\ on_cpu = [t \in Tasks |-> FALSE]
    /\ ctxsw = [t \in Tasks |-> 0]
    /\ kstack = [t \in Tasks |-> <<1>>]
    /\ ustack = [t \in Tasks |-> <<1>>]

NextBacklog ==
    \/ Sampler
    \/ \E t \in live, nr \in {208, 426} : SysEnter(t, nr)

SpecBacklog == InitBacklog /\ [][NextBacklog]_vars

\* the sampler's fast path and the -p TGID filter, over two tasks of two processes:
\* the second is a user thread, a kernel thread, or a thread of xcapture itself
FastStates == {0, TASK_INTERRUPTIBLE, TASK_UNINTERRUPTIBLE, TASK_NOLOAD + TASK_UNINTERRUPTIBLE}
FastTgids == <<10, 20>>
OtherPid == 30
InitFast ==
    /\ InitMaps
    /\ drv = DrvOff
    /\ csv = CsvOff
    /\ wall = WallIdle
    /\ cfg \in {[Config(TRUE, FALSE, FALSE, FALSE, FALSE) EXCEPT
                     !.xcap_xcapture_pid = x, !.filter_tgid = f,
                     !.HAVE_BPF_ITER_TASK_LINK_INFO = h] :
                 x \in {FastTgids[2], OtherPid}, f \in {0, FastTgids[1]}, h \in BOOLEAN}
    /\ live = {1, 2}
    /\ regs = [t \in Tasks |-> -1]
    /\ \E k \in SUBSET {1, 2}, s1 \in FastStates, s2 \in FastStates :
          /\ \A t \in k : FastTgids[t] # cfg.xcap_xcapture_pid
          /\ sys = [SysDefault EXCEPT
                        !.kthreads = k,
                        !.tgid = [t \in Tasks |-> FastTgids[t]],
                        !.task_states = [t \in Tasks |-> IF t = 1 THEN {s1} ELSE {s2}],
                        !.socks = [t \in Tasks |-> {NoSock}]]
    /\ rq_live = [rq \in Rqs |-> "free"]
    /\ on_cpu = [t \in Tasks |-> FALSE]
    /\ ctxsw = [t \in Tasks |-> 0]
    /\ kstack = [t \in Tasks |-> <<1>>]
    /\ ustack = [t \in Tasks |-> <<1>>]

NextFast == Sampler

SpecFast == InitFast /\ [][NextFast]_vars

\* xcapture from its command line to its exit status: every combination of CSV output,
\* passive mode, syscall and iorq tracking, stack collection and -i
DrvOptions ==
    [output_csv : BOOLEAN, passive_only : BOOLEAN, track_syscalls : BOOLEAN,
     track_iorq : BOOLEAN, stacks : BOOLEAN, max_iterations : {-1, MaxIterations}]
\* main() is entered with one of the option sets opts
DriverStarts(opts) ==
    /\ now = 1
    /\ storage = [t \in Tasks |-> ZeroState]
    /\ cache = [t \in Tasks |-> ZeroCache]
    /\ iorq_tracking = [rq \in Rqs |-> <<>>]
    /\ emitted_stacks = {}
    /\ it = ItIdle
    /\ this_iter_loop_start_ktime = 0
    /\ task_samples = <<>>
    /\ completion_events = <<>>
    /\ stack_traces = <<>>
    /\ tick = 0
    /\ hist = NoHist
    /\ wall = WallIdle
    /\ sys = SysDefault
    /\ cfg = Config(FALSE, FALSE, FALSE, FALSE, FALSE)
    /\ live = {}
    /\ regs = [t \in Tasks |-> -1]
    /\ rq_live = [rq \in Rqs |-> "free"]
    /\ on_cpu = [t \in Tasks |-> FALSE]
    /\ ctxsw = [t \in Tasks |-> 0]
    /\ kstack = [t \in Tasks |-> <<1>>]
    /\ ustack = [t \in Tasks |-> <<1>>]
    /\ \E opt \in opts, print_stack_traces \in BOOLEAN :
          /\ drv = [pc |-> "args", opt |-> opt, print_stack_traces |-> print_stack_traces,
                    step |-> 1, err |-> 0, status |-> <<>>,
                    exiting |-> FALSE, iteration_count |-> 0,
                    g_failed |-> <<>>, g_rot |-> FALSE, g_ticks |-> 0, g_ops |-> <<>>]
          /\ csv = [pc |-> "down", files |-> ZeroFiles, hour |-> 0, g_check |-> <<>>, rows |-> 0,
                    ctx |-> [dump_kernel_stack_traces |-> opt.stacks, dump_user_stack_traces |-> FALSE],
                    disk |-> [hh \in Hours |-> [k \in Kinds |-> <<>>]]]

InitDriver == DriverStarts(DrvOptions)

NextDriver == Driver \/ \E h \in Hours : CsvHour(h)

SpecDriver == InitDriver /\ [][NextDriver]_vars

\* the sampling loop, with stack collection and the tracking ring, with and without
\* CSV output and an iteration count. main() is one thread that takes its next step
\* whenever it has one; signals arrive or not
InitLoop ==
    DriverStarts([output_csv : BOOLEAN, passive_only : {FALSE}, track_syscalls : {FALSE}, track_iorq : {FALSE}, stacks : {TRUE}, max_iterations : {-1, MaxIterations}])

NextLoop == Driver

SpecLoop ==
    InitLoop /\ [][NextLoop]_vars /\ WF_vars(DrvArgs \/ DrvOutput \/ DrvStartupStep \/ DrvLoopTop \/ DrvPollTask \/ DrvPollStack \/ DrvPollTracking \/ DrvSleep \/ DrvCleanup)

\* the STATE column alone: a polled TaskSample with the task state, on_rq, on_cpu and
\* migration_pending the sampler copied from the task (task.bpf.c 351-353)
StatesIn == {0, TASK_INTERRUPTIBLE, TASK_UNINTERRUPTIBLE, TASK_STOPPED, TASK_TRACED, TASK_DEAD, TASK_WAKEKILL + TASK_UNINTERRUPTIBLE, TASK_WAKING, TASK_NOLOAD, TASK_NOLOAD + TASK_UNINTERRUPTIBLE, TASK_NEW}
InitState ==
    /\ InitMaps
    /\ drv = DrvOff
    /\ csv = CsvOff
    /\ sys = SysDefault
    /\ cfg = Config(FALSE, FALSE, FALSE, FALSE, FALSE)
    /\ live = {}
    /\ regs = [t \in Tasks |-> -1]
    /\ rq_live = [rq \in Rqs |-> "free"]
    /\ on_cpu = [t \in Tasks |-> FALSE]
    /\ ctxsw = [t \in Tasks |-> 0]
    /\ kstack = [t \in Tasks |-> <<1>>]
    /\ ustack = [t \in Tasks |-> <<1>>]
    /\ \E e \in [state : StatesIn, on_rq : 0..2, on_cpu : 0..1, migration_pending : 0..1] :
          wall = [pc |-> "state_polled", event |-> e]

NextState == FormatTaskState

SpecState == InitState /\ [][NextState]_vars

\* the CSV output alone: processes started with one command line that write rows,
\* rotate, exit or are killed, over files that are all absent at first, while the local
\* hour changes
InitOutput ==
    /\ InitMaps
    /\ drv = DrvOff
    /\ wall = WallIdle
    /\ sys = SysDefault
    /\ cfg = Config(FALSE, FALSE, FALSE, FALSE, FALSE)
    /\ live = {}
    /\ regs = [t \in Tasks |-> -1]
    /\ rq_live = [rq \in Rqs |-> "free"]
    /\ on_cpu = [t \in Tasks |-> FALSE]
    /\ ctxsw = [t \in Tasks |-> 0]
    /\ kstack = [t \in Tasks |-> <<1>>]
    /\ ustack = [t \in Tasks |-> <<1>>]
    /\ \E h \in Hours, dk \in BOOLEAN, du \in BOOLEAN :
          csv = [pc |-> "down", files |-> ZeroFiles, hour |-> h, g_check |-> <<>>, rows |-> 0,
                 ctx |-> [dump_kernel_stack_traces |-> dk, dump_user_stack_traces |-> du],
                 disk |-> [hh \in Hours |-> [k \in Kinds |-> <<>>]]]

NextOutput ==
    \/ CsvStart
    \/ \E k \in {"sample_file", "sc_completion_file", "iorq_completion_file"} : CsvHandle(k)
    \/ \E k \in {"kstack_file", "ustack_file"} : CsvStackRow(k)
    \/ CsvFlush
    \/ \E h \in Hours : CsvHour(h)
    \/ CsvExit
    \/ CsvKill

SpecOutput == InitOutput /\ [][NextOutput]_vars

\* the syscall completions waiting in the completion ring
ScCompletions ==
    {completion_events[i] : i \in {j \in 1..Len(completion_events) :
                                      completion_events[j].type = "syscall"}}

\* syscall instance q of task t has exited
Exited(t, q) ==
    \/ storage[t].sc_sequence_num > q
    \/ storage[t].sc_sequence_num = q /\ regs[t] = -1

\* C1: every syscall instance (task, sc_sequence_num) that was in progress when a
\* TaskSample of its task reporting it was submitted, and that has exited, has
\* exactly one SyscallCompletion with its pid and sequence number (unless the
\* completion ring refused the record), and every SyscallCompletion has
\* exit time >= enter time.
C1_ExactlyOneCompletion ==
    /\ \A k \in hist.sc_during :
           Exited(k[1], k[2]) =>
               Count(hist.sc_compl, k) = 1 \/ k \in hist.sc_dropped
    /\ \A c \in ScCompletions :
           c.completed_sc_exit_time >= c.completed_sc_enter_time

\* C2: every SyscallCompletion in the completion ring has a TaskSample of its pid
\* and sequence number submitted to the sample ring, or the sampler is still
\* working on the sample of that task.
C2_CompletionHasSample ==
    \A c \in ScCompletions :
        \/ <<c.pid, c.completed_sc_sequence_num>> \in hist.sc_samples
        \/ it.task = c.pid /\ it.pc \in {"reserve", "iorq", "stacks"} /\ it.passive >= 0

\* C6: in every TaskStore entry, sc_sampled implies in_syscall_nr >= 0.
C6_SampledImpliesInSyscall ==
    \A t \in Tasks : storage[t].sc_sampled => storage[t].in_syscall_nr >= 0

C9_SharedSampleStart ==
    /\ \A x \in hist.starts, y \in hist.starts : (x[1] = y[1]) <=> (x[2] = y[2])
    /\ \A i \in 1..Len(task_samples) :
           /\ task_samples[i].storage.sample_start_ktime = this_iter_loop_start_ktime
           /\ task_samples[i].storage.sample_actual_ktime
                  >= task_samples[i].storage.sample_start_ktime

\* the second tick has sampled both tasks, the second one later than the loop start,
\* after the first tick sampled
C9_Witness ==
    /\ tick = 2
    /\ Len(task_samples) = 2
    /\ task_samples[1].pid # task_samples[2].pid
    /\ task_samples[2].storage.sample_actual_ktime
           > task_samples[2].storage.sample_start_ktime
    /\ \E x \in hist.starts : x[1] = 1

\* the block-I/O completions waiting in the completion ring
IorqCompletions ==
    {completion_events[i] : i \in {j \in 1..Len(completion_events) :
                                      completion_events[j].type = "iorq"}}

\* C3: for every IorqCompletion in the completion ring, a TaskSample whose tid is
\* the completion's insert_pid and whose iorq_sequence_num is the completion's has
\* been submitted, or is reserved and being filled by the sampler.
C3_IorqCompletionHasSample ==
    \A c \in IorqCompletions :
        \/ <<c.insert_pid, c.iorq_sequence_num>> \in hist.iorq_samples
        \/ /\ it.event # <<>>
           /\ it.event[1].pid = c.insert_pid
           /\ it.event[1].storage.iorq_sequence_num = c.iorq_sequence_num

\* C4: every IorqCompletion comes from an entry that the sampler marked for the
\* completion's own (insert_pid, iorq_sequence_num), and if the completed request
\* took its pointer over from an earlier request, the sampler marked the entry
\* after the takeover.
C4_NoLeakedSampledMark ==
    \A c \in IorqCompletions :
        /\ c.g_mark = <<c.insert_pid, c.iorq_sequence_num>>
        /\ c.g_reused => c.g_mark_reused

\* C8: a step adds exactly one to a task's iorq_sequence_num if the task creates an
\* IorqTracking entry in it (an insert, or an issue at a pointer without entry), every
\* other step leaves the number alone, and no two entries are ever created with the
\* same (insert_pid, iorq_sequence_num).
C8_IorqSequenceMonotone ==
    /\ [](\A e \in hist.iorq_created : e[2] = 1)
    /\ [][\A t \in Tasks :
             storage'[t].iorq_sequence_num =
                 IF \E rq \in Rqs :
                        /\ rq_live'[rq] # rq_live[rq]
                        /\ \/ rq_live'[rq] = "queued"
                           \/ rq_live'[rq] = "issued" /\ iorq_tracking[rq] = <<>>
                        /\ iorq_tracking'[rq][1].insert_pid = t
                 THEN storage[t].iorq_sequence_num + 1
                 ELSE storage[t].iorq_sequence_num]_vars

\* task 1 has created two entries; the second one has been issued and marked by the
\* sampler, the first one has completed and been reported
C8_Witness ==
    /\ <<<<1, 1>>, 1>> \in hist.iorq_created
    /\ <<<<1, 2>>, 1>> \in hist.iorq_created
    /\ \E rq \in Rqs :
          /\ iorq_tracking[rq] # <<>>
          /\ iorq_tracking[rq][1].iorq_sequence_num = 2
          /\ iorq_tracking[rq][1].issue_pid = 1
          /\ iorq_tracking[rq][1].iorq_sampled
    /\ \E c \in IorqCompletions : c.iorq_sequence_num = 1

\* C5: every stack hash value has been submitted in at most one StackTrace record.
C5_StackTraceOncePerHash ==
    \A e \in hist.stacks : e[2] = 1

\* the nanoseconds between two timespecs, and of a printed time
TsDiffNs(a, b) == (a.tv_sec - b.tv_sec) * NsPerSec + (a.tv_nsec - b.tv_nsec)
StrNs(str) == str[1] * NsPerSec + str[2] * NsPerUs
MonoNs == wall.tcorr.mono_time.tv_sec * NsPerSec + wall.tcorr.mono_time.tv_nsec

\* C10 as stated: for a TaskSample with sc_enter_time > 0, the reported sample time
\* minus the reported syscall entry time is sample_actual_ktime - sc_enter_time.
C10_ReportedDiffExact ==
    (wall.pc = "reported" /\ wall.storage.sc_enter_time > 0) =>
        StrNs(wall.out.timestamp) - StrNs(wall.out.sc_start_time_str)
            = wall.storage.sample_actual_ktime - wall.storage.sc_enter_time

\* C10 amended: for a TaskSample with sc_enter_time > 0, the timespec computed for
\* the sample (from sample_start_ktime) and the one computed for the syscall entry
\* are normalised and differ by sample_start_ktime - sc_enter_time exactly, in
\* nanoseconds, for every clock pair and for ktime values on either side of the
\* monotonic reference; each is printed truncated to microseconds.
C10_ComputedDiffExact ==
    (wall.pc = "reported" /\ wall.storage.sc_enter_time > 0) =>
        LET a == wall.out.current_sample_ts_iter_start
            b == wall.out.current_sc_start_ts[1]
        IN  /\ a.tv_nsec \in 0..(NsPerSec - 1)
            /\ b.tv_nsec \in 0..(NsPerSec - 1)
            /\ TsDiffNs(a, b)
                   = wall.storage.sample_start_ktime - wall.storage.sc_enter_time
            /\ wall.out.timestamp[2] * NsPerUs <= a.tv_nsec
            /\ a.tv_nsec < (wall.out.timestamp[2] + 1) * NsPerUs
            /\ wall.out.sc_start_time_str[2] * NsPerUs <= b.tv_nsec
            /\ b.tv_nsec < (wall.out.sc_start_time_str[2] + 1) * NsPerUs

\* a sample taken after the monotonic reference and later than its tick's start, of
\* a syscall entered before the reference, has been reported
C10_Witness ==
    /\ wall.pc = "reported"
    /\ wall.storage.sc_enter_time > 0
    /\ wall.storage.sc_enter_time < MonoNs
    /\ wall.storage.sample_start_ktime > MonoNs
    /\ wall.storage.sample_actual_ktime > wall.storage.sample_start_ktime

\* C11: in every TaskSample in the sample ring whose passive syscall_nr and
\* probe-recorded storage.in_syscall_nr are both >= 0, the two numbers are equal.
C11_PassiveAgreesWithProbe ==
    \A i \in 1..Len(task_samples) :
        (task_samples[i].syscall_nr >= 0 /\ task_samples[i].storage.in_syscall_nr >= 0)
            => task_samples[i].syscall_nr = task_samples[i].storage.in_syscall_nr

\* C12: whenever the interest filter decides on a task, with show_all set or with
\* the task's state lacking the TASK_INTERRUPTIBLE bit, the task is kept and goes on
\* to be emitted, whatever its syscall, fd or port.
C12_NonSleepingKept ==
    [][(/\ it.pc = "mark"
        /\ it'.pc # "mark"
        /\ (cfg.xcap_show_all \/ ~HasBit(it.task_state, TASK_INTERRUPTIBLE)))
            => (it'.pc = "reserve" /\ it'.task = it.task)]_vars

\* with show_all off, a task in uninterruptible sleep inside read() on a listening
\* TCP socket has its sample in the ring
C12_Witness ==
    /\ ~cfg.xcap_show_all
    /\ sys.task_states[1] = {TASK_UNINTERRUPTIBLE}
    /\ sys.socks[1] = {Sock("tcp", TRUE, 80)}
    /\ \E i \in 1..Len(task_samples) :
          task_samples[i].pid = 1 /\ task_samples[i].syscall_nr = 0

\* C13: with show_all off, a sleeping task that the AIO and io_uring rules do not
\* concern and whose observed fd (first syscall argument) is a TCP or UDP socket with
\* a local port is dropped by the filter if and only if the local port is at most
\* daemon_ports or the socket is a TCP socket in LISTEN; for every such syscall and
\* every daemon_ports value.
C13_DaemonPortHeuristic ==
    [][(/\ it.pc = "mark"
        /\ it'.pc # "mark"
        /\ ~cfg.xcap_show_all
        /\ HasBit(it.task_state, TASK_INTERRUPTIBLE)
        /\ SYSCALL_HAS_FD_ARG1(it.passive)
        /\ it.passive \notin NR_aio_any \cup NR_io_uring_enter)
            => \A sock \in sys.socks[it.task] :
                   (/\ sock # NoSock
                    /\ sock[1].protocol \in {"tcp", "udp"}
                    /\ Swab16(sock[1].sport) > 0)
                       => ((it'.pc # "reserve")
                              <=> (\/ Swab16(sock[1].sport) <= cfg.xcap_daemon_ports
                                   \/ sock[1].protocol = "tcp" /\ sock[1].listen))]_vars

\* C14: with show_all off, a sleeping task in io_getevents or io_pgetevents is kept
\* by the filter exactly when its AIO ring has inflight requests at this tick, and a
\* sleeping task in io_uring_enter exactly when the ring named by its first argument
\* has SQ or CQ backlog at this tick; counts an earlier tick or an earlier ring left
\* in the TaskStore play no part.
C14_AsyncKeepUsesCurrentCounts ==
    [][(/\ it.pc = "mark"
        /\ it'.pc # "mark"
        /\ ~cfg.xcap_show_all
        /\ HasBit(it.task_state, TASK_INTERRUPTIBLE))
            => /\ it.passive \in NR_aio_getevents
                   => \A aio \in sys.aio[it.task] :
                          (it'.pc = "reserve") <=> (get_aio_inflight_count_task(aio) > 0)
               /\ it.passive \in NR_io_uring_enter
                   => \A ring \in sys.rings[it.task] :
                          (it'.pc = "reserve")
                              <=> (ring_pending(ring.sq) > 0 \/ ring_pending(ring.cq) > 0)]_vars

\* C15: the fast path drops a task, before any sample is produced, if and only if it
\* is a kernel thread whose state has both TASK_UNINTERRUPTIBLE and TASK_NOLOAD set, or
\* it belongs to the xcapture process; a kernel thread in any other state passes.
C15_FastPathDropsOnlyIdleKthreads ==
    [][(it.pc = "visit" /\ it.task # NoTask /\ it' # it)
           => \A task_state \in sys.task_states[it.task] :
                  (it'.pc # "mark")
                      <=> (\/ /\ it.task \in sys.kthreads
                              /\ HasBit(task_state, TASK_UNINTERRUPTIBLE)
                              /\ HasBit(task_state, TASK_NOLOAD)
                           \/ TgidOf(it.task) = cfg.xcap_xcapture_pid)]_vars

\* C16: when a TGID filter is set, every TaskSample in the sample ring has the
\* filter's tgid, with kernel-level iterator filtering built in or not.
C16_FilterTgidHonoured ==
    cfg.filter_tgid > 0 =>
        \A i \in 1..Len(task_samples) : task_samples[i].tgid = cfg.filter_tgid

\* C17: a TaskSample emitted for the visit in which the sampler found sc_enter_time 0
\* and stamped the running syscall carries sc_enter_time equal to its own
\* sample_actual_ktime, and the consumer reports for it that time as the syscall's
\* entry time and a time-in-syscall so far of 0.
C17_RetroStampReported ==
    \A i \in 1..Len(task_samples) :
        task_samples[i].g_stamped =>
            LET st == task_samples[i].storage
                out == handle_task_event(Tcorr0, st)
            IN  /\ st.sc_enter_time = st.sample_actual_ktime
                /\ out.sc_duration_ns = 0
                /\ out.current_sc_start_ts
                       = <<get_wall_from_mono(Tcorr0, st.sample_actual_ktime)>>

\* the hash the last sample of a task carried for a stack it left in the cache
PrevHash(cached) == IF Len(cached) > 0 THEN get_stack_hash(cached) ELSE 0
\* the StackTrace records a step appends to the ring
NewStackTraces == SubSeq(stack_traces', Len(stack_traces) + 1, Len(stack_traces'))
\* get_tasks finishes a sample of a task it sampled before, with stack collection on
\* and the task's context-switch count unchanged since that sample
ResampledNoCtxsw ==
    /\ it.pc = "stacks"
    /\ it'.pc # "stacks"
    /\ cfg.xcap_dump_kernel_stack_traces \/ cfg.xcap_dump_user_stack_traces
    /\ cache[it.task].g_prev # <<>>
    /\ ctxsw[it.task] = storage[it.task].last_total_ctxsw

FatalStartup ==
    ({StartupSteps[i].name : i \in 1..Len(StartupSteps)} \ {"parse_column_list"})
        \cup {"check_and_rotate_files"}

\* C19: when the process has exited after a fatal start-up failure, its exit status
\* is not 0.
C19_StartupFailureExitsNonZero ==
    (drv.pc = "exited" /\ drv.g_failed # <<>> /\ drv.g_failed[1] \in FatalStartup)
        => drv.status[1] # 0

\* C20: a poll in which an event handler's file rotation fails leaves the driver in
\* its sampling loop: it goes on to the next poll or to the sleep before the next
\* tick, and neither to cleanup nor out of the process.
C20_RotationErrorKeepsSampling ==
    [][(/\ drv.pc \in {"poll_task", "poll_tracking"}
        /\ ~drv.g_rot
        /\ drv'.g_rot)
            => drv'.pc \in {"poll_stack", "poll_tracking", "sleep"}]_vars

\* C21: a TaskSample whose sc_enter_time is later than its sample_actual_ktime (the
\* entry probe stamped the syscall after the sampler stamped the sample) is reported
\* by the consumer with a time-in-syscall so far of 0.
C21_LateEntryClampedToZero ==
    \A i \in 1..Len(task_samples) :
        LET st == task_samples[i].storage
        IN  st.sc_enter_time > st.sample_actual_ktime
                => handle_task_event(Tcorr0, st).sc_duration_ns = 0

\* what file k of hour h holds once the stream that is open on it is written out
FileContent(h, k) ==
    csv.disk[h][k] \o (IF csv.files.fp[k] # <<>> /\ csv.files.fp[k][1].hour = h
                       THEN csv.files.fp[k][1].buf ELSE <<>>)

\* C22: every hourly CSV file that is not empty has exactly one header line and it is
\* the file's first line, after any sequence of opens, rotations, closes, restarts and
\* kills; after a successful check_and_rotate_files the open files are the ones named
\* for the hour in which the check ran, and every row lies in the file of the hour in
\* which the rotation check before its write ran.
C22_OneHeaderFirstAndCurrentHour ==
    csv.pc \in {"up", "down"} =>
        /\ \A h \in Hours, k \in Kinds :
              LET c == FileContent(h, k)
              IN  /\ c # <<>> => c[1] = HeaderLine
                  /\ \A i \in 2..Len(c) : c[i] = RowLine(h)
                  /\ csv.disk[h][k] # <<>> => csv.disk[h][k][1] = HeaderLine
        /\ csv.g_check # <<>> =>
              \A k \in Kinds :
                  /\ csv.files.fp[k] # <<>> => csv.files.fp[k][1].hour = csv.g_check[1]
                  /\ KindWanted(k, csv.ctx) => csv.files.fp[k] # <<>>

\* the files of one hour were written and closed by a rotation, and the sample file of
\* another hour holds its header and a row and is open
C22_Witness ==
    /\ csv.pc = "up"
    /\ \E h1 \in Hours, h2 \in Hours :
          /\ h1 # h2
          /\ csv.disk[h2]["sample_file"] = <<HeaderLine>>
          /\ csv.disk[h1]["sample_file"] = <<HeaderLine, RowLine(h1)>>
          /\ csv.files.fp["sample_file"] = <<[hour |-> h1, buf |-> <<>>]>>
          /\ csv.g_check = <<h1>>

\* C23: the STATE column shows RUNNING, INTERRUPTIBLE, UNINTERRUPTIBLE, STOPPED, DEAD,
\* WAKING (0x200), NOLOAD (0x400), IDLE (0x402) and NEW (0x800) as RUN, SLEEP, DISK,
\* STOPPED, DEAD, WAKING, NOLOAD, IDLE and NEW, any other state as 0x<hex>, followed
\* by Q exactly when on_rq > 0 and on_cpu = 0 and then by M exactly when
\* migration_pending is not null.
C23_StateEncoding ==
    wall.pc = "state_printed" =>
        LET e == wall.event
            name == CASE e.state = 0 -> <<"RUN">>
                      [] e.state = TASK_INTERRUPTIBLE -> <<"SLEEP">>
                      [] e.state = TASK_UNINTERRUPTIBLE -> <<"DISK">>
                      [] e.state = TASK_STOPPED -> <<"STOPPED">>
                      [] e.state = TASK_DEAD -> <<"DEAD">>
                      [] e.state = TASK_WAKING -> <<"WAKING">>
                      [] e.state = TASK_NOLOAD -> <<"NOLOAD">>
                      [] e.state = TASK_NOLOAD + TASK_UNINTERRUPTIBLE -> <<"IDLE">>
                      [] e.state = TASK_NEW -> <<"NEW">>
                      [] OTHER -> <<"0x", e.state>>
            q == IF e.on_rq > 0 /\ e.on_cpu = 0 THEN <<"Q">> ELSE <<>>
            m == IF e.migration_pending # 0 THEN <<"M">> ELSE <<>>
        IN  wall.out = name \o q \o m

\* the rows that are in the files on disk
RowsOnDisk == {x \in Hours \X Kinds \X (1..(MaxRows + 1)) : x[3] <= Len(csv.disk[x[1]][x[2]]) /\ csv.disk[x[1]][x[2]][x[3]] # HeaderLine}

C25_MarkedOnlyIfSubmitted ==
    /\ [](\A h \in emitted_stacks : <<h, 1>> \in hist.stacks)
    /\ [][(it.pc = "stacks" /\ it'.pc # "stacks")
            => LET ev == task_samples'[Len(task_samples')]
                   sent == {NewStackTraces[i].stack_hash : i \in 1..Len(NewStackTraces)}
               IN  /\ Len(task_samples') = Len(task_samples) + 1
                   /\ ev.kstack_hash = PrevHash(cache'[it.task].cached_kstack)
                   /\ ev.ustack_hash = PrevHash(cache'[it.task].cached_ustack)
                   /\ \A h \in {ev.kstack_hash, ev.ustack_hash} \ ({0} \cup emitted_stacks) :
                         h \notin sent => h \notin emitted_stacks'
                   /\ \A h \in sent : h \in {ev.kstack_hash, ev.ustack_hash} \ emitted_stacks]_vars

\* a TaskSample was submitted with a kernel stack hash for which no StackTrace record
\* was ever submitted, and the hash is not in emitted_stacks
C25_Witness ==
    /\ Len(task_samples) > 0
    /\ LET ev == task_samples[Len(task_samples)]
       IN  /\ ev.kstack_hash # 0
           /\ ev.kstack_hash \notin emitted_stacks
           /\ <<ev.kstack_hash, 1>> \notin hist.stacks

\* C26: when a task leaves a syscall with the syscall probes attached, after
\* xcap_sys_exit the task's TaskStore has sc_sampled false and in_syscall_nr -1, and
\* its sc_enter_time and sc_sequence_num are what they were, whether the syscall had
\* been sampled or not and whether the completion reservation succeeded or not.
C26_SysExitEffect ==
    [][\A t \in live :
          (cfg.track_syscalls /\ regs[t] # -1 /\ regs'[t] = -1)
              => /\ ~storage'[t].sc_sampled
                 /\ storage'[t].in_syscall_nr = -1
                 /\ storage'[t].sc_enter_time = storage[t].sc_enter_time
                 /\ storage'[t].sc_sequence_num = storage[t].sc_sequence_num]_vars

IorqEvents(ring) == {i \in 1..Len(ring) : ring[i].type = "iorq"}

\* C28: a completion of the whole request (the request pointer becomes free) leaves no
\* entry at the pointer, whether there was one, whether it was sampled and whether the
\* ring had room; it touches no other entry and no task's storage; it appends at most
\* one IorqCompletion, carrying the entry's inserter, issuer and sequence number, and
\* none when there was no entry or the entry was not sampled. An entry disappears and
\* an IorqCompletion appears only in such a step: a partial completion, which leaves
\* the request with the driver, does neither
C28_CompleteEffect ==
    [][\A rq \in Rqs :
          /\ (rq_live[rq] = "issued" /\ rq_live'[rq] = "free")
                => /\ iorq_tracking'[rq] = <<>>
                   /\ \A o \in Rqs \ {rq} : iorq_tracking'[o] = iorq_tracking[o]
                   /\ storage' = storage
                   /\ IF iorq_tracking[rq] # <<>> /\ iorq_tracking[rq][1].iorq_sampled THEN
                          \/ completion_events' = completion_events
                          \/ /\ Len(completion_events') = Len(completion_events) + 1
                             /\ SubSeq(completion_events', 1, Len(completion_events))
                                    = completion_events
                             /\ LET e == completion_events'[Len(completion_events')]
                                IN  /\ e.type = "iorq"
                                    /\ e.rq = rq
                                    /\ e.insert_pid = iorq_tracking[rq][1].insert_pid
                                    /\ e.issue_pid = iorq_tracking[rq][1].issue_pid
                                    /\ e.iorq_sequence_num
                                           = iorq_tracking[rq][1].iorq_sequence_num
                      ELSE completion_events' = completion_events
          /\ (iorq_tracking[rq] # <<>> /\ iorq_tracking'[rq] = <<>>)
                => rq_live[rq] = "issued" /\ rq_live'[rq] = "free"
          /\ (rq_live' = rq_live)
                => Cardinality(IorqEvents(completion_events'))
                       <= Cardinality(IorqEvents(completion_events))]_vars

\* a sampled request was completed and its IorqCompletion is in the ring; the other
\* pointer's request, with the driver since before the probes attached, was completed
\* too, with no entry and no record
C28_Witness ==
    \E rq \in Rqs, o \in Rqs :
       /\ rq # o
       /\ rq_live[rq] = "free" /\ iorq_tracking[rq] = <<>>
       /\ rq_live[o] = "free" /\ iorq_tracking[o] = <<>>
       /\ \E i \in IorqEvents(completion_events) : completion_events[i].rq = rq
       /\ \A i \in IorqEvents(completion_events) : completion_events[i].rq # o
       /\ Cardinality(hist.iorq_created) = 1

\* C29: a sampler visit whose TaskSample reservation fails leaves the task's
\* sc_sampled, sc_enter_time, in_syscall_nr and last_total_ctxsw and every entry of
\* iorq_tracking as they were when the visit began: neither the step that takes the
\* visit to the reservation, which can always fail, nor the step in which the
\* reservation fails changes any of them
C29_FailedReservationLeavesNoMark ==
    [][\A t \in live :
          (/\ it.task = t
           /\ \/ it.pc = "mark" /\ it'.pc = "reserve"
              \/ it.pc = "reserve" /\ it'.pc = "visit")
              => /\ storage'[t].sc_sampled = storage[t].sc_sampled
                 /\ storage'[t].sc_enter_time = storage[t].sc_enter_time
                 /\ storage'[t].in_syscall_nr = storage[t].in_syscall_nr
                 /\ storage'[t].last_total_ctxsw = storage[t].last_total_ctxsw
                 /\ iorq_tracking' = iorq_tracking]_vars

\* tracking_handler.c l.170-177 and l.180-188: the fields of an IorqCompletion that
\* handle_tracking_event prints (of those the model carries)
IorqPrinted ==
    {"insert_pid", "insert_tgid", "issue_pid", "issue_tgid", "complete_pid",
     "complete_tgid", "iorq_sequence_num"}

\* C30: every field of an IorqCompletion that the consumer prints is assigned by
\* xcap_iorq_complete between the reservation and the submit: the record appended for
\* a completed request has, in each printed field, the same value whatever the
\* reserved bytes held before
C30_PrintedFieldsAllWritten ==
    [][\A rq \in Rqs :
          (/\ rq_live[rq] = "issued" /\ rq_live'[rq] = "free"
           /\ Len(completion_events') = Len(completion_events) + 1)
              => \A page \in sys.ring_pages, f \in IorqPrinted :
                    completion_events'[Len(completion_events')][f]
                        = IorqFill(page, rq, iorq_tracking[rq][1])[f]]_vars

\* struct task_output_event, xcapture.h l.238-313: the fields the model carries
TaskEventFields ==
    {"pid", "tgid", "on_cpu", "syscall_nr", "storage", "kstack_hash", "ustack_hash",
     "emit_reason", "cmdline_len", "ur_sq_filename", "in_thrashing"}

\* C31: between reserving a TaskSample and submitting it the sampler writes every
\* field of the record: what it has filled in after the reservation is, field by
\* field, the same whatever the reserved bytes held before, and the record it
\* submits differs from that only in the two stack hashes it assigns afterwards
C31_SampleFieldsAllWritten ==
    [][/\ (it.pc = "reserve" /\ it'.pc = "iorq")
            => \A page \in sys.sample_pages, f \in TaskEventFields :
                  it'.event[1][f] = TaskFill(page)[f]
       /\ (Len(task_samples') = Len(task_samples) + 1)
            => \A f \in TaskEventFields \ {"kstack_hash", "ustack_hash"} :
                  task_samples'[Len(task_samples')][f] = it.event[1][f]]_vars

\* C32: the visit decides to reuse the cached stacks exactly when stack collection is
\* on, the task is off CPU and its context-switch count is last_total_ctxsw; when it
\* finishes a sample, each collected stack left in the cache is the one that was
\* there if reuse was decided and the cache was not empty, and otherwise one just
\* read from the task; a non-zero kstack_hash or ustack_hash in the TaskSample is the
\* hash of the stack then in the cache; and last_total_ctxsw changes only in a step
\* that submits a TaskSample of that task, to the count read at that visit
C32_StackCacheFreshness ==
    [][/\ (it.pc = "visit" /\ it'.pc = "mark")
            => (it'.can_use_cached_stack
                    <=> /\ cfg.xcap_dump_kernel_stack_traces
                           \/ cfg.xcap_dump_user_stack_traces
                        /\ ~on_cpu[it.task]
                        /\ ctxsw[it.task] = storage[it.task].last_total_ctxsw)
       /\ (it.pc = "stacks" /\ it'.pc # "stacks")
            => LET t == it.task
                   ev == task_samples'[Len(task_samples')]
               IN  /\ Len(task_samples') = Len(task_samples) + 1
                   /\ cfg.xcap_dump_kernel_stack_traces
                        => /\ IF it.can_use_cached_stack /\ Len(cache[t].cached_kstack) > 0
                              THEN cache'[t].cached_kstack = cache[t].cached_kstack
                              ELSE cache'[t].cached_kstack \in KReads(t)
                           /\ ev.kstack_hash # 0
                                => ev.kstack_hash = get_stack_hash(cache'[t].cached_kstack)
                   /\ (cfg.xcap_dump_user_stack_traces /\ t \notin KThreads)
                        => /\ IF it.can_use_cached_stack /\ Len(cache[t].cached_ustack) > 0
                              THEN cache'[t].cached_ustack = cache[t].cached_ustack
                              ELSE cache'[t].cached_ustack \in UReads(t)
                           /\ ev.ustack_hash # 0
                                => ev.ustack_hash = get_stack_hash(cache'[t].cached_ustack)
       /\ \A t \in Tasks :
             storage'[t].last_total_ctxsw # storage[t].last_total_ctxsw
                => /\ it.pc = "stacks" /\ it.task = t
                   /\ Len(task_samples') = Len(task_samples) + 1
                   /\ storage'[t].last_total_ctxsw = it.total_ctxsw]_vars

\* a task that has been switched out once, and is off CPU, was sampled at the second
\* tick: that sample, still in the ring, carries the hashes of the kernel and user
\* stacks the cache holds, and last_total_ctxsw is the task's count
C32_Witness ==
    /\ tick = 2
    /\ it.pc = "visit" /\ it.task = NoTask
    /\ ~on_cpu[1]
    /\ ctxsw[1] = 1
    /\ storage[1].last_total_ctxsw = 1
    /\ cache[1].g_prev = <<FALSE>>
    /\ \E i \in 1..Len(task_samples) :
          /\ task_samples[i].pid = 1
          /\ task_samples[i].g_tick = 2
          /\ task_samples[i].kstack_hash # 0
          /\ task_samples[i].kstack_hash = get_stack_hash(cache[1].cached_kstack)
          /\ task_samples[i].ustack_hash # 0
          /\ task_samples[i].ustack_hash = get_stack_hash(cache[1].cached_ustack)

\* task_handler.c l.441-452, 502, 532: handle_task_event computes a duration so far
\* and prints a syscall entry time whenever the sample's sc_enter_time is not 0
ReportsEntryTime(e) == e.storage.sc_enter_time > 0

\* C33: a TaskSample for which the consumer reports a syscall entry time, or a
\* duration so far, is a sample of a task that was in a syscall when it was sampled:
\* when the sampler fills the sample of a task that it found outside any syscall and
\* that is outside any syscall still, the sample does not carry the entry time of a
\* finished syscall
C33_NoStaleEntryTime ==
    [][(/\ it.pc = "reserve" /\ it'.pc = "iorq"
        /\ it.passive = -1
        /\ regs[it.task] = -1)
            => ~ReportsEntryTime(it'.event[1])]_vars

\* syscall_info.c l.20-33: "-" for a negative number, else the name of the syscall
safe_syscall_name(syscall_nr) == IF syscall_nr < 0 THEN <<"-">> ELSE <<"sys", syscall_nr>>

\* columns.c l.65-74: the SYSCALL_ACTIVE column
format_syscall_active(is_kthread, in_syscall_nr) ==
    IF is_kthread THEN <<"-">>
    ELSE IF in_syscall_nr >= 0 THEN safe_syscall_name(in_syscall_nr)
    ELSE <<"?">>

\* the names safe_syscall_name gives to syscalls
SyscallNames == {safe_syscall_name(nr) : nr \in Syscalls}

\* C34: when the sampler fills the sample of a task that it found outside any syscall
\* and that is outside any syscall still, the in_syscall_nr embedded in the sample is
\* -1 and the SYSCALL_ACTIVE column shows no syscall name, also when the task's
\* storage has only just been created
C34_NotInSyscallIsMinusOne ==
    [][(/\ it.pc = "reserve" /\ it'.pc = "iorq"
        /\ it.passive = -1
        /\ regs[it.task] = -1)
            => /\ it'.event[1].storage.in_syscall_nr = -1
               /\ format_syscall_active(it.task \in KThreads,
                                        it'.event[1].storage.in_syscall_nr)
                      \notin SyscallNames]_vars

\* FNV-1a over every address of a stack, in the arithmetic of get_stack_hash
RECURSIVE Fnv1a(_, _, _)
Fnv1a(hash, stack, i) ==
    IF i > Len(stack) THEN hash
    ELSE Fnv1a((Xor(hash, stack[i] % HashMod) * FNV_PRIME) % HashMod, stack, i + 1)

\* C35: the kstack_hash of a submitted TaskSample is the FNV-1a fold over all the
\* addresses of the kernel stack it identifies, the one in the cache, whatever the
\* stack's length; it is 0 for an empty stack
C35_HashCoversWholeStack ==
    [][(it.pc = "stacks" /\ it'.pc # "stacks")
          => LET ev == task_samples'[Len(task_samples')]
                 kc == cache'[it.task].cached_kstack
             IN  ev.kstack_hash = IF Len(kc) = 0 THEN 0 ELSE Fnv1a(FNV_BASIS, kc, 1)]_vars

\* C36: when the sampler has looked at the io_uring ring of a task in io_uring_enter,
\* the stored SQ and CQ backlog are (tail - head) in 32-bit arithmetic masked by the
\* queue's ring mask, for counters on either side of the 32-bit wrap and for a full
\* ring
C36_UringPendingMasked ==
    [][(/\ it.pc = "mark" /\ it'.pc # "mark"
        /\ it.passive \in NR_io_uring_enter)
            => \A ring \in sys.rings[it.task] :
                   ring.found
                       => /\ storage'[it.task].io_uring_sq_pending
                               = ((U32Mod + ring.sq.tail - ring.sq.head) % U32Mod)
                                     % (ring.sq.mask + 1)
                          /\ storage'[it.task].io_uring_cq_pending
                               = ((U32Mod + ring.cq.tail - ring.cq.head) % U32Mod)
                                     % (ring.cq.mask + 1)]_vars

\* (tail - head) mod nr of a readable aio ring header, 0 of one that cannot be read
AioInflight(ring) ==
    IF ring.read = "ok" THEN (ring.nr + ring.tail - ring.head) % ring.nr ELSE 0

\* C37: the aio inflight count the sampler stores for a task in an AIO syscall, and
\* the one the sys_enter probe stores at io_getevents, is (tail - head) mod nr of the
\* task's aio ring header, also when tail < head, and 0 when the header cannot be
\* read
C37_AioInflightModNr ==
    [][/\ (/\ it.pc = "mark" /\ it'.pc # "mark"
           /\ it.passive \in NR_aio_any)
              => \A ring \in sys.aio[it.task] :
                     storage'[it.task].aio_inflight_reqs = AioInflight(ring)
       /\ \A t \in live :
              (regs[t] = -1 /\ regs'[t] \in NR_aio_getevents /\ cfg.track_syscalls)
                  => \A ring \in sys.aio[t] :
                         storage'[t].aio_inflight_reqs = AioInflight(ring)]_vars

\* the calls of one pass through the sampling loop, in the order main.c makes them
TickOrder ==
    <<"clock_pair", "reset_unique_stacks", "trigger", "poll_task", "poll_stack",
      "poll_tracking", "print_unique_stacks", "sleep">>
TickPos(op) == CHOOSE i \in 1..Len(TickOrder) : TickOrder[i] = op
TickOps == {drv.g_ops[i] : i \in 1..Len(drv.g_ops)}

\* C38: in every pass of the sampling loop the calls made so far are in the order
\* clock pair, unique-stack reset, sampler trigger, sample ring, stack ring,
\* completion ring, stack dump, sleep, each at most once; a ring is drained only
\* after the clock pair, the reset and the one trigger, and the stack dump and the
\* sleep come only after every ring the run has set up has been drained
C38_TickOrdering ==
    drv.pc \notin {"args", "output", "startup"}
        => /\ \A i, j \in 1..Len(drv.g_ops) :
                  i < j => TickPos(drv.g_ops[i]) < TickPos(drv.g_ops[j])
           /\ (TickOps \cap {"poll_task", "poll_stack", "poll_tracking"} # {})
                  => /\ Len(drv.g_ops) > 3
                     /\ SubSeq(drv.g_ops, 1, 4)
                            = <<"clock_pair", "reset_unique_stacks", "trigger", "poll_task">>
           /\ (TickOps \cap {"print_unique_stacks", "sleep"} # {})
                  => /\ "poll_task" \in TickOps
                     /\ drv.opt.stacks => "poll_stack" \in TickOps
                     /\ ~drv.opt.passive_only => "poll_tracking" \in TickOps
           /\ drv.pc \in {"poll_task", "poll_stack", "poll_tracking", "sleep"}
                  => "trigger" \in TickOps

\* the second pass of a plain-text run with -s, stack collection and the tracking
\* ring has made all eight calls
C38_Witness ==
    /\ drv.g_ops = TickOrder
    /\ drv.g_ticks = 2
    /\ drv.pc = "loop"

====
